---- MODULE Spec2Model ----
(***************************************************************************)
(* Model of the unified API gateway (apps/api-gateway/gateway.go, listed   *)
(* in docs/training/PRODUCT_ENGINEER.md) and of the authorization engine   *)
(* (packages/core/auth.go), of the SMS service (services/sms-service) and   *)
(* of the response cache of packages/llm-orchestrator.                     *)
(*                                                                         *)
(* SQL statements are sequences of tokens; string concatenation is         *)
(* sequence concatenation.  Go maps are functions; a nil map and an empty  *)
(* map are kept apart with an isNil flag.  The empty Go string is "".      *)
(***************************************************************************)
EXTENDS Integers, Sequences, FiniteSets, TLC

VARIABLES
    permissions,  \* AuthorizationEngine.permissions: table -> role -> TablePermission
    store,        \* the rows of the external store: table -> sequence of rows
    out,          \* the result of the last call into the authorization engine
    cur,          \* the gateway request served last, with its store calls and response
    inserts,      \* number of rows inserted through the gateway
    catalog,      \* the base tables of the store's information_schema, in query order
    schemas,      \* the Schema values allocated so far; a *Schema is an index, 0 is nil
    eschema,      \* UnifiedAPIEngine.schema
    mu,           \* UnifiedAPIEngine.mu: "free" or the holder of the write lock
    loader,       \* the goroutine running LoadSchemaFromDB
    ready,        \* the goroutine serving GET /ready
    apis,         \* the handlers built by GenerateAPIs, and whether the listener runs
    inflight,     \* a request being served by a generated REST handler
    clients,      \* WebSocketHandler.clients: clientID -> connection
    wsConn,       \* the WebSocket connections and the position of their handlers
    balance,      \* SMS service store: accounts.balance in tenths of a unit, per account id
    reqs,         \* SMS service: the requests being handled, one per handler goroutine
    dlr,          \* SMS service: the DLRBuffer and the batches it handed to the store
    cache         \* LLM orchestrator: the response Cache, its clock and its callers

gatewayVars == <<permissions, store, out, cur, inserts>>

engineVars == <<catalog, schemas, eschema, mu, loader, ready, apis, inflight>>

wsVars == <<clients, wsConn>>

svcVars == <<balance, reqs, dlr, cache>>

vars == <<permissions, store, out, cur, inserts,
          catalog, schemas, eschema, mu, loader, ready, apis, inflight,
          clients, wsConn, balance, reqs, dlr, cache>>

-----------------------------------------------------------------------------
(* Bounds of the model *)

\* rows the gateway may attempt to insert in one behaviour
MaxInserts == 2

\* rows in the body of one bulk insert
MaxBulk == 2

\* rows seeded into the large accounts table: one more than the REST list cap
BigRows == 101

-----------------------------------------------------------------------------
(* packages/core/auth.go: roles, operations, claims *)

RoleAnonymous == "anonymous"
RoleUser == "user"
RoleAdmin == "admin"
RoleReseller == "reseller"
RoleService == "service"
RoleSuperAdmin == "super_admin"

Roles == {RoleAnonymous, RoleUser, RoleAdmin, RoleReseller, RoleService, RoleSuperAdmin}

PermissionSelect == "select"
PermissionInsert == "insert"
PermissionUpdate == "update"
PermissionDelete == "delete"

Ops == {PermissionSelect, PermissionInsert, PermissionUpdate, PermissionDelete}

\* Claims{AccountID, Role, IsLive}
Claims(acct, role, live) == [AccountID |-> acct, Role |-> role, IsLive |-> live]

\* &Claims{Role: RoleAnonymous}
AnonymousClaims == Claims("", RoleAnonymous, FALSE)

-----------------------------------------------------------------------------
(* Go maps *)

NilMap == [isNil |-> TRUE, m |-> [c \in {} |-> ""]]
EmptyMap == [isNil |-> FALSE, m |-> [c \in {} |-> ""]]
Map(f) == [isNil |-> FALSE, m |-> f]

\* one operation's permission; Present = FALSE is the nil pointer
NoPerm == [Present |-> FALSE, Allowed |-> FALSE, Filter |-> NilMap, Set |-> NilMap, Limit |-> 0]
Perm(allowed, filter, set, limit) ==
    [Present |-> TRUE, Allowed |-> allowed, Filter |-> filter, Set |-> set, Limit |-> limit]

TablePermission(role, table, sel, ins, upd, del) ==
    [Role |-> role, Table |-> table, Select |-> sel, Insert |-> ins, Update |-> upd, Delete |-> del]

AccountFilter(col) == Map([c \in {col} |-> "X-Account-ID"])

\* the entries written by initializeDefaultPermissions, in the order of the code
DefaultEntries ==
    << TablePermission(RoleUser, "accounts",
           Perm(TRUE, AccountFilter("id"), NilMap, 0), NoPerm,
           Perm(TRUE, AccountFilter("id"), NilMap, 0), NoPerm),
       TablePermission(RoleAdmin, "accounts",
           Perm(TRUE, NilMap, NilMap, 0), Perm(TRUE, NilMap, NilMap, 0),
           Perm(TRUE, NilMap, NilMap, 0), Perm(TRUE, NilMap, NilMap, 0)),
       TablePermission(RoleUser, "sms_history",
           Perm(TRUE, AccountFilter("account_id"), NilMap, 1000),
           Perm(TRUE, NilMap, AccountFilter("account_id"), 0), NoPerm, NoPerm),
       TablePermission(RoleUser, "campaigns",
           Perm(TRUE, AccountFilter("account_id"), NilMap, 0),
           Perm(TRUE, NilMap, AccountFilter("account_id"), 0),
           Perm(TRUE, AccountFilter("account_id"), NilMap, 0),
           Perm(TRUE, AccountFilter("account_id"), NilMap, 0)),
       TablePermission(RoleUser, "sender_ids",
           Perm(TRUE, AccountFilter("account_id"), NilMap, 0),
           Perm(TRUE, NilMap,
                Map([c \in {"account_id", "status"} |->
                        IF c = "account_id" THEN "X-Account-ID" ELSE "'pending'"]), 0),
           NoPerm, NoPerm),
       TablePermission(RoleUser, "billing_transactions",
           Perm(TRUE, AccountFilter("tenant_id"), NilMap, 0), NoPerm, NoPerm, NoPerm) >>

\* setPermission: e.permissions[perm.Table][perm.Role] = perm
setPermission(perms, perm) ==
    LET inner == IF perm.Table \in DOMAIN perms
                 THEN perms[perm.Table]
                 ELSE [r \in {} |-> perm]
        inner2 == [r \in (DOMAIN inner) \cup {perm.Role} |->
                      IF r = perm.Role THEN perm ELSE inner[r]]
    IN  [t \in (DOMAIN perms) \cup {perm.Table} |->
            IF t = perm.Table THEN inner2 ELSE perms[t]]

RECURSIVE SetAll(_, _)
SetAll(perms, entries) ==
    IF entries = <<>> THEN perms
    ELSE SetAll(setPermission(perms, Head(entries)), Tail(entries))

\* the permission table after NewAuthorizationEngine
DefaultPermissions == SetAll([t \in {} |-> [r \in {} |-> NoPerm]], DefaultEntries)

NoTablePermission == [Present |-> FALSE, perm |-> TablePermission("", "", NoPerm, NoPerm, NoPerm, NoPerm)]

\* GetPermission: nil unless both map lookups succeed
GetPermission(perms, table, role) ==
    IF table \in DOMAIN perms /\ role \in DOMAIN perms[table]
    THEN [Present |-> TRUE, perm |-> perms[table][role]]
    ELSE NoTablePermission

-----------------------------------------------------------------------------
(* SQL text as token sequences *)

\* fmt.Sprintf("$%d", i)
Param(i) == "$" \o ToString(i)

\* tokens whose upper-case form contains the substring WHERE
WhereBearing == {"WHERE", "where", "Where", "elsewhere"}

\* strings.Contains(strings.ToUpper(query), "WHERE")
ContainsWhere(query) == \E i \in 1..Len(query) : query[i] \in WhereBearing

\* strings.HasPrefix(val, "X-")
HasPrefixX(val) == val \in {"X-Account-ID", "X-Role", "X-Is-Live"}

\* strings.Join(conditions, " AND ")
RECURSIVE JoinAnd(_)
JoinAnd(conds) ==
    IF conds = <<>> THEN <<>>
    ELSE IF Len(conds) = 1 THEN conds[1]
    ELSE conds[1] \o <<"AND">> \o JoinAnd(Tail(conds))

\* the orders in which a range loop may visit the keys of a map
KeyOrders(f) ==
    {o \in [1..Cardinality(DOMAIN f) -> DOMAIN f] :
        \A i, j \in DOMAIN o : i # j => o[i] # o[j]}

-----------------------------------------------------------------------------
(* packages/core/auth.go: ApplyRLS *)

RLSError(msg) == [err |-> msg, query |-> <<>>, args |-> <<>>, argsNil |-> TRUE]
RLSOk(query, args, argsNil) == [err |-> "", query |-> query, args |-> args, argsNil |-> argsNil]

\* the op-specific pointer of a TablePermission
OpPerm(perm, op) ==
    CASE op = PermissionSelect -> perm.Select
      [] op = PermissionUpdate -> perm.Update
      [] op = PermissionDelete -> perm.Delete
      [] op = PermissionInsert -> perm.Insert

\* the loop over the filter, visiting the keys in the given order
RLSConditions(order) == [i \in 1..Len(order) |-> <<order[i], "=", Param(i)>>]
RLSArgs(filter, claims, order) ==
    [i \in 1..Len(order) |->
        IF HasPrefixX(filter[order[i]]) THEN claims.AccountID ELSE filter[order[i]]]

\* the rewrite of the statement once the permission allows the operation
RLSRewrite(query, filter, claims, order) ==
    IF filter.isNil THEN RLSOk(query, <<>>, TRUE)
    ELSE LET conds == JoinAnd(RLSConditions(order))
             args == RLSArgs(filter.m, claims, order)
         IN  IF ContainsWhere(query)
             THEN RLSOk(query \o <<"AND">> \o conds, args, FALSE)
             ELSE RLSOk(query \o <<"WHERE">> \o conds, args, FALSE)

\* ApplyRLS without the test of Allowed: a permission that is present is honoured
ApplyRLSIgnoringAllowed(perms, query, table, op, claims, order) ==
    LET tp == GetPermission(perms, table, claims.Role) IN
    IF ~tp.Present THEN RLSError("no permission")
    ELSE IF op \notin Ops THEN RLSOk(query, <<>>, TRUE)
    ELSE LET p == OpPerm(tp.perm, op) IN
         IF ~p.Present THEN RLSError(op \o " not allowed")
         ELSE IF op = PermissionInsert THEN RLSOk(query, <<>>, TRUE)
         ELSE RLSRewrite(query, p.Filter, claims, order)

\* ApplyRLS over a given permission table; order is the map iteration order
ApplyRLS(perms, query, table, op, claims, order) ==
    LET tp == GetPermission(perms, table, claims.Role) IN
    IF ~tp.Present THEN RLSError("no permission")
    ELSE IF op \notin Ops THEN RLSOk(query, <<>>, TRUE)
    ELSE LET p == OpPerm(tp.perm, op) IN
         IF ~p.Present \/ ~p.Allowed THEN RLSError(op \o " not allowed")
         ELSE IF op = PermissionInsert THEN RLSOk(query, <<>>, TRUE)
         ELSE RLSRewrite(query, p.Filter, claims, order)

\* the row filter ApplyRLS would use, nil when the operation is refused
RLSFilter(perms, table, op, claims) ==
    LET tp == GetPermission(perms, table, claims.Role) IN
    IF ~tp.Present \/ op \notin Ops \/ op = PermissionInsert THEN NilMap
    ELSE LET p == OpPerm(tp.perm, op) IN
         IF ~p.Present \/ ~p.Allowed THEN NilMap ELSE p.Filter

\* whether ApplyRLS refuses the operation (its result is independent of the order)
RLSRefuses(perms, table, op, claims) ==
    ApplyRLS(perms, <<>>, table, op, claims, <<>>).err # ""

-----------------------------------------------------------------------------
(* The external store: schema and seeded contents *)

\* a column of a row; the rows of a table carry all its columns
Get(row, col) == IF col \in DOMAIN row THEN row[col] ELSE "NULL"

\* migrations/lumadb/001_initial_schema.sql, the columns the model follows:
\* cols, the NOT NULL columns without default, and the column defaults
TableDefs ==
    [t \in {"accounts", "sms_history", "sender_ids"} |->
        CASE t = "accounts" ->
                [cols |-> {"id", "email", "test_secret_key", "live_secret_key"},
                 notNull |-> {"email", "test_secret_key", "live_secret_key"},
                 defaults |-> [c \in {} |-> ""],
                 idPrefix |-> "BV"]
          [] t = "sms_history" ->
                [cols |-> {"id", "account_id", "recipient", "status"},
                 notNull |-> {"recipient"},
                 defaults |-> [c \in {"status"} |-> "pending"],
                 idPrefix |-> ""]
          [] t = "sender_ids" ->
                [cols |-> {"id", "account_id", "sender", "status"},
                 notNull |-> {"account_id", "sender"},
                 defaults |-> [c \in {"status"} |-> "pending"],
                 idPrefix |-> ""]]

AccountRow(id, liveKey, testKey) ==
    [id |-> id, email |-> id \o "@example.com",
     live_secret_key |-> liveKey, test_secret_key |-> testKey]

SmsRow(id, acct, status) ==
    [id |-> id, account_id |-> acct, recipient |-> "2348030000000", status |-> status]

SenderRow(id, acct, sender, status) ==
    [id |-> id, account_id |-> acct, sender |-> sender, status |-> status]

SmallAccounts ==
    << AccountRow("A", "lk_A", "tk_A"), AccountRow("B", "lk_B", "tk_B") >>

\* BigRows accounts: A, B and further accounts named by their number
BigAccounts ==
    [i \in 1..BigRows |->
        IF i = 1 THEN AccountRow("A", "lk_A", "tk_A")
        ELSE IF i = 2 THEN AccountRow("B", "lk_B", "tk_B")
        ELSE AccountRow(ToString(i), "lk_" \o ToString(i), "tk_" \o ToString(i))]

SeedSms == << SmsRow("1", "A", "delivered"), SmsRow("2", "B", "pending") >>

SeedSenders ==
    << SenderRow("1", "A", "ALPHA", "approved"), SenderRow("2", "B", "BETA", "pending") >>

SeedStore(accounts) ==
    [t \in DOMAIN TableDefs |->
        CASE t = "accounts" -> accounts
          [] t = "sms_history" -> SeedSms
          [] t = "sender_ids" -> SeedSenders]

SmallStore == SeedStore(SmallAccounts)

BigStore == SeedStore(BigAccounts)

\* the tables of the loaded schema: the base tables of the store
Tables == DOMAIN SmallStore

-----------------------------------------------------------------------------
(* packages/core/auth.go: ValidateToken, validateAPIKey, Middleware *)

\* the secret the engine verifies signatures with
JwtSecret == "secret"

\* bearer tokens a client may present: what the token decodes to, the key that
\* signed it, and whether its expiry has passed
TokenTable ==
    [tok \in {"jwtA", "jwtB", "jwtAdminA", "jwtExpiredA", "jwtForgedB"} |->
        CASE tok = "jwtA" -> [claims |-> Claims("A", RoleUser, TRUE), key |-> "secret", expired |-> FALSE]
          [] tok = "jwtB" -> [claims |-> Claims("B", RoleUser, TRUE), key |-> "secret", expired |-> FALSE]
          [] tok = "jwtAdminA" -> [claims |-> Claims("A", RoleAdmin, TRUE), key |-> "secret", expired |-> FALSE]
          [] tok = "jwtExpiredA" -> [claims |-> Claims("A", RoleUser, TRUE), key |-> "secret", expired |-> TRUE]
          [] tok = "jwtForgedB" -> [claims |-> Claims("B", RoleAdmin, TRUE), key |-> "other", expired |-> FALSE]]

\* ValidateToken: claims when the token parses, verifies under jwtSecret and has
\* not expired; an error otherwise
ValidateToken(tok) ==
    IF tok \in DOMAIN TokenTable /\ TokenTable[tok].key = JwtSecret /\ ~TokenTable[tok].expired
    THEN [err |-> FALSE, claims |-> TokenTable[tok].claims]
    ELSE [err |-> TRUE, claims |-> AnonymousClaims]

\* strings.HasPrefix(apiKey, "tk_")
HasPrefixTk(apiKey) == apiKey \in {"tk_A", "tk_B", "tk_unknown"}

\* QueryRow("SELECT id FROM accounts WHERE <keyColumn> = $1", apiKey).Scan(&accountID)
LookupKey(accounts, keyColumn, apiKey) ==
    LET hits == {i \in 1..Len(accounts) : Get(accounts[i], keyColumn) = apiKey} IN
    IF hits = {} THEN [err |-> TRUE, id |-> ""]
    ELSE [err |-> FALSE, id |-> accounts[CHOOSE i \in hits : \A j \in hits : i <= j].id]

validateAPIKey(accounts, apiKey) ==
    LET isLive == ~HasPrefixTk(apiKey)
        keyColumn == IF ~isLive THEN "test_secret_key" ELSE "live_secret_key"
        r == LookupKey(accounts, keyColumn, apiKey)
    IN  IF r.err THEN AnonymousClaims ELSE Claims(r.id, RoleUser, isLive)

\* strings.ToLower(parts[0]) == "bearer"
IsBearerWord(w) == w \in {"Bearer", "bearer", "BEARER"}

\* The claims variable of Middleware before it is dereferenced.  The
\* Authorization header is given as strings.Split(authHeader, " "), the empty
\* header as << >>.  isNil is the nil *Claims.
ResolveClaims(authParts, apiKey, accounts) ==
    IF authParts # <<>>
    THEN IF Len(authParts) = 2 /\ IsBearerWord(authParts[1])
         THEN LET v == ValidateToken(authParts[2]) IN
              IF v.err THEN [isNil |-> FALSE, claims |-> AnonymousClaims]
              ELSE [isNil |-> FALSE, claims |-> v.claims]
         ELSE [isNil |-> TRUE, claims |-> AnonymousClaims]
    ELSE IF apiKey # ""
    THEN [isNil |-> FALSE, claims |-> validateAPIKey(accounts, apiKey)]
    ELSE [isNil |-> FALSE, claims |-> AnonymousClaims]

\* Middleware: resolves the claims, overwrites X-Account-ID and X-Role and calls
\* next; claims.AccountID on a nil *Claims panics before next is called
MiddlewareKeepingHeaders(authParts, apiKey, xAccountID, xRole, accounts) ==
    LET r == ResolveClaims(authParts, apiKey, accounts) IN
    IF r.isNil
    THEN [kind |-> "middleware", panicked |-> TRUE, nextCalled |-> FALSE,
          claims |-> AnonymousClaims, hasClaims |-> FALSE,
          xAccountID |-> xAccountID, xRole |-> xRole,
          clientAccountID |-> xAccountID, clientRole |-> xRole,
          authParts |-> authParts, apiKey |-> apiKey]
    ELSE [kind |-> "middleware", panicked |-> FALSE, nextCalled |-> TRUE,
          claims |-> r.claims, hasClaims |-> TRUE,
          xAccountID |-> xAccountID, xRole |-> xRole,
          clientAccountID |-> xAccountID, clientRole |-> xRole,
          authParts |-> authParts, apiKey |-> apiKey]

Middleware(authParts, apiKey, xAccountID, xRole, accounts) ==
    LET r == ResolveClaims(authParts, apiKey, accounts) IN
    IF r.isNil
    THEN [kind |-> "middleware", panicked |-> TRUE, nextCalled |-> FALSE,
          claims |-> AnonymousClaims, hasClaims |-> FALSE,
          xAccountID |-> xAccountID, xRole |-> xRole,
          clientAccountID |-> xAccountID, clientRole |-> xRole,
          authParts |-> authParts, apiKey |-> apiKey]
    ELSE [kind |-> "middleware", panicked |-> FALSE, nextCalled |-> TRUE,
          claims |-> r.claims, hasClaims |-> TRUE,
          xAccountID |-> r.claims.AccountID, xRole |-> r.claims.Role,
          clientAccountID |-> xAccountID, clientRole |-> xRole,
          authParts |-> authParts, apiKey |-> apiKey]

-----------------------------------------------------------------------------
(* The external store: executing a statement *)

\* numbers that occur as literals or arguments of LIMIT and OFFSET
NumLits == {-1, 0, 1, 100, 1000, 1000000}

MaxParams == 4

IsParam(tok) == \E i \in 1..MaxParams : Param(i) = tok
ParamIndex(tok) == CHOOSE i \in 1..MaxParams : Param(i) = tok

IsNumLit(tok) == \E n \in NumLits : ToString(n) = tok
NumOf(tok) == CHOOSE n \in NumLits : ToString(n) = tok

\* the value of a quoted SQL literal
Unquote(tok) ==
    CASE tok = "'A'" -> "A"
      [] tok = "'B'" -> "B"
      [] tok = "'pending'" -> "pending"
      [] tok = "'approved'" -> "approved"
      [] OTHER -> tok

\* an operand of a predicate: a bound parameter, a column of the row, or a literal
Operand(tok, row, args) ==
    IF IsParam(tok)
    THEN (IF ParamIndex(tok) <= Len(args) THEN args[ParamIndex(tok)] ELSE "NULL")
    ELSE IF tok \in DOMAIN row THEN row[tok]
    ELSE Unquote(tok)

\* conds is  a = b (AND a = b)*  as tokens
CondsWellFormed(conds) ==
    /\ Len(conds) >= 3
    /\ Len(conds) % 4 = 3
    /\ \A i \in 1..Len(conds) :
          /\ (i % 4 = 2 => conds[i] = "=")
          /\ (i % 4 = 0 => conds[i] = "AND")
          /\ (i % 4 \in {1, 3} => conds[i] \notin {"=", "AND", "WHERE", "LIMIT", "OFFSET", "ORDER", "BY"})

CondsHold(conds, row, args) ==
    \A k \in 0..((Len(conds) - 3) \div 4) :
        Operand(conds[4 * k + 1], row, args) = Operand(conds[4 * k + 3], row, args)

\* the position of the first clause keyword after the WHERE clause, or Len + 1
TailStart(stmt) ==
    LET ks == {i \in 5..Len(stmt) : stmt[i] \in {"ORDER", "LIMIT", "OFFSET"}} IN
    IF ks = {} THEN Len(stmt) + 1 ELSE CHOOSE i \in ks : \A j \in ks : i <= j

\* a number given as a literal or as a bound integer parameter
NumOperand(tok, args) ==
    IF IsParam(tok) /\ ParamIndex(tok) <= Len(args) THEN [ok |-> TRUE, n |-> args[ParamIndex(tok)]]
    ELSE IF IsNumLit(tok) THEN [ok |-> TRUE, n |-> NumOf(tok)]
    ELSE [ok |-> FALSE, n |-> 0]

\* the clauses after WHERE:  [ORDER BY c] [LIMIT n] [OFFSET m]
ParseTail(tail, args) ==
    LET afterOrder == IF Len(tail) >= 3 /\ tail[1] = "ORDER" /\ tail[2] = "BY"
                      THEN SubSeq(tail, 4, Len(tail)) ELSE tail
        hasLimit == Len(afterOrder) >= 2 /\ afterOrder[1] = "LIMIT"
        lim == IF hasLimit THEN NumOperand(afterOrder[2], args) ELSE [ok |-> TRUE, n |-> 0]
        afterLimit == IF hasLimit THEN SubSeq(afterOrder, 3, Len(afterOrder)) ELSE afterOrder
        hasOffset == Len(afterLimit) >= 2 /\ afterLimit[1] = "OFFSET"
        off == IF hasOffset THEN NumOperand(afterLimit[2], args) ELSE [ok |-> TRUE, n |-> 0]
        rest == IF hasOffset THEN SubSeq(afterLimit, 3, Len(afterLimit)) ELSE afterLimit
    IN  [ok |-> rest = <<>> /\ lim.ok /\ off.ok /\ lim.n >= 0 /\ off.n >= 0,
         hasLimit |-> hasLimit, limit |-> lim.n, offset |-> off.n]

Min(a, b) == IF a <= b THEN a ELSE b

\* Query(ctx, "SELECT * FROM t ...", args...): the rows in heap order, or an error
ExecSelect(st, stmt, args) ==
    IF ~(Len(stmt) >= 4 /\ SubSeq(stmt, 1, 3) = <<"SELECT", "*", "FROM">> /\ stmt[4] \in DOMAIN st)
    THEN [err |-> TRUE, rows |-> <<>>]
    ELSE LET ts == TailStart(stmt)
             wherePart == SubSeq(stmt, 5, ts - 1)
             tail == ParseTail(SubSeq(stmt, ts, Len(stmt)), args)
             whereOk == wherePart = <<>> \/
                        (wherePart[1] = "WHERE" /\ CondsWellFormed(Tail(wherePart)))
         IN  IF ~whereOk \/ ~tail.ok THEN [err |-> TRUE, rows |-> <<>>]
             ELSE LET Keep(row) == wherePart = <<>> \/ CondsHold(Tail(wherePart), row, args)
                      hits == SelectSeq(st[stmt[4]], Keep)
                      from == tail.offset + 1
                      to == IF tail.hasLimit THEN Min(Len(hits), tail.offset + tail.limit)
                            ELSE Len(hits)
                  IN  [err |-> FALSE, rows |-> SubSeq(hits, from, to)]

\* strings.Join(items, ", ")
RECURSIVE JoinComma(_)
JoinComma(items) ==
    IF items = <<>> THEN <<>>
    ELSE IF Len(items) = 1 THEN <<items[1]>>
    ELSE <<items[1], ",">> \o JoinComma(Tail(items))

\* QueryRow(ctx, "INSERT INTO t (c1, ..) VALUES ($1, ..) RETURNING *", values...):
\* the store after the statement.  A malformed statement, an unknown column or
\* a NOT NULL column left without value fails and leaves the store unchanged;
\* a column left out gets its default, the id the next generated value.
ExecInsert(st, stmt, args) ==
    LET n == (Len(stmt) - 8) \div 4
        shapeOk == /\ Len(stmt) >= 12
                   /\ (Len(stmt) - 8) % 4 = 0
                   /\ SubSeq(stmt, 1, 2) = <<"INSERT", "INTO">>
                   /\ stmt[3] \in DOMAIN st
                   /\ stmt[4] = "("
                   /\ SubSeq(stmt, 4 + 2 * n, 6 + 2 * n) = <<")", "VALUES", "(">>
                   /\ SubSeq(stmt, Len(stmt) - 2, Len(stmt)) = <<")", "RETURNING", "*">>
                   /\ \A i \in 1..n : IsParam(stmt[5 + 2 * n + 2 * i])
                                      /\ ParamIndex(stmt[5 + 2 * n + 2 * i]) <= Len(args)
    IN  IF ~shapeOk THEN [err |-> TRUE, store |-> st]
        ELSE LET def == TableDefs[stmt[3]]
                 cols == [i \in 1..n |-> stmt[3 + 2 * i]]
                 given == [c \in {cols[i] : i \in 1..n} |->
                              args[ParamIndex(stmt[5 + 2 * n +
                                       2 * (CHOOSE i \in 1..n : cols[i] = c)])]]
                 row == [c \in def.cols |->
                            IF c \in DOMAIN given THEN given[c]
                            ELSE IF c \in DOMAIN def.defaults THEN def.defaults[c]
                            ELSE IF c = "id"
                            THEN def.idPrefix \o ToString(Len(st[stmt[3]]) + 1)
                            ELSE "NULL"]
             IN  IF ~(DOMAIN given \subseteq def.cols)
                    \/ (\E c \in def.notNull : row[c] = "NULL")
                 THEN [err |-> TRUE, store |-> st]
                 ELSE [err |-> FALSE,
                       store |-> [st EXCEPT ![stmt[3]] = Append(@, row)]]

-----------------------------------------------------------------------------
(* apps/api-gateway/gateway.go: the generated handlers *)

\* the row cap written into the REST list statement
RESTListLimit == 100

\* the limit of the MCP list tool when the input gives none
MCPDefaultLimit == 100

Call(stmt, args) == [stmt |-> stmt, args |-> args]

\* A served request.  steps lists, in order, the pipeline steps the handler
\* ran; calls lists the statements it sent to the store.
NoRequest ==
    [kind |-> "none", proto |-> "", table |-> "", authParts |-> <<>>, apiKey |-> "",
     where |-> <<>>, limit |-> <<>>, payload |-> [c \in {} |-> ""],
     steps |-> <<>>, calls |-> <<>>, status |-> 0, err |-> FALSE, rows |-> <<>>,
     stored |-> FALSE, items |-> <<>>, inserted |-> 0, persisted |-> <<>>]

\* RESTHandler.handleList: SELECT * FROM t LIMIT 100, then the rows as JSON
handleList(st, table, authParts, apiKey) ==
    LET query == <<"SELECT", "*", "FROM", table, "LIMIT", ToString(RESTListLimit)>>
        r == ExecSelect(st, query, <<>>)
    IN  [NoRequest EXCEPT
            !.kind = "list", !.proto = "rest", !.table = table,
            !.authParts = authParts, !.apiKey = apiKey,
            !.steps = <<"Execute", "Shape">>,
            !.calls = <<Call(query, <<>>)>>,
            !.status = IF r.err THEN 500 ELSE 200,
            !.err = r.err,
            !.rows = r.rows]

\* GraphQLHandler.resolveList: the where argument is appended as given; limit
\* is bound as $1.  where and limit are << >> when the argument is absent.
\* A resolver error is reported in the body of a 200 response.
resolveList(st, table, authParts, apiKey, where, limit) ==
    LET q0 == <<"SELECT", "*", "FROM", table>>
        q1 == IF where # <<>> THEN q0 \o <<"WHERE">> \o where ELSE q0
        query == IF limit # <<>> THEN q1 \o <<"LIMIT", Param(1)>> ELSE q1
        args == limit
        r == ExecSelect(st, query, args)
    IN  [NoRequest EXCEPT
            !.kind = "list", !.proto = "graphql", !.table = table,
            !.authParts = authParts, !.apiKey = apiKey,
            !.where = where, !.limit = limit,
            !.steps = <<"Execute", "Shape">>,
            !.calls = <<Call(query, args)>>,
            !.status = 200,
            !.err = r.err,
            !.rows = r.rows]

\* the handler of the MCP tool list_<table>, run by POST /tools/{name}/execute
mcpListTool(st, table, authParts, apiKey, limit) ==
    LET lim == IF limit # <<>> THEN limit[1] ELSE MCPDefaultLimit
        query == <<"SELECT", "*", "FROM", table, "LIMIT", ToString(lim)>>
        r == ExecSelect(st, query, <<>>)
    IN  [NoRequest EXCEPT
            !.kind = "list", !.proto = "mcp", !.table = table,
            !.authParts = authParts, !.apiKey = apiKey,
            !.limit = limit,
            !.steps = <<"Execute", "Shape">>,
            !.calls = <<Call(query, <<>>)>>,
            !.status = IF r.err THEN 500 ELSE 200,
            !.err = r.err,
            !.rows = r.rows]

\* the INSERT statement of handleCreate for the payload's columns in map order
InsertStmt(table, cols) ==
    <<"INSERT", "INTO", table, "(">> \o JoinComma(cols) \o <<")", "VALUES", "(">>
        \o JoinComma([i \in 1..Len(cols) |-> Param(i)]) \o <<")", "RETURNING", "*">>

\* RESTHandler.handleCreate: the payload's columns and values go into the
\* INSERT as they are.  scanRowToMap returns an empty map and no error, so the
\* answer is 201 whether or not the store took the row (stored).
handleCreate(st, table, authParts, apiKey, payload, order) ==
    LET query == InsertStmt(table, order)
        values == [i \in 1..Len(order) |-> payload[order[i]]]
    IN  [NoRequest EXCEPT
            !.kind = "create", !.proto = "rest", !.table = table,
            !.authParts = authParts, !.apiKey = apiKey,
            !.payload = payload,
            !.steps = <<"Execute", "Shape">>,
            !.calls = <<Call(query, values)>>,
            !.status = 201,
            !.err = FALSE,
            !.rows = <<>>,
            !.stored = ~ExecInsert(st, query, values).err]

\* the loop of handleBulkCreate over the items from the k-th on: every item is
\* its own INSERT; scanRowToMap gives an empty map and no error for each, so
\* every item adds a result.  persisted collects the rows the store took.
RECURSIVE BulkLoop(_, _, _, _, _)
BulkLoop(acc, table, items, orders, k) ==
    IF k > Len(items) THEN acc
    ELSE LET query == InsertStmt(table, orders[k])
             values == [i \in 1..Len(orders[k]) |-> items[k][orders[k][i]]]
             r == ExecInsert(acc.store, query, values)
             row == r.store[table][Len(r.store[table])]
         IN  BulkLoop([store |-> r.store,
                       calls |-> Append(acc.calls, Call(query, values)),
                       results |-> Append(acc.results, [c \in {} |-> ""]),
                       persisted |-> IF r.err THEN acc.persisted
                                     ELSE Append(acc.persisted, row)],
                      table, items, orders, k + 1)

\* RESTHandler.handleBulkCreate: {inserted: len(results), data: results}, 201
handleBulkCreate(st, table, authParts, apiKey, items, orders) ==
    LET r == BulkLoop([store |-> st, calls |-> <<>>, results |-> <<>>,
                       persisted |-> <<>>], table, items, orders, 1)
    IN  [req |-> [NoRequest EXCEPT
                    !.kind = "bulk", !.proto = "rest", !.table = table,
                    !.authParts = authParts, !.apiKey = apiKey,
                    !.items = items,
                    !.steps = <<"Execute", "Shape">>,
                    !.calls = r.calls,
                    !.status = 201,
                    !.err = FALSE,
                    !.rows = r.results,
                    !.inserted = Len(r.results),
                    !.persisted = r.persisted],
         store |-> r.store]

-----------------------------------------------------------------------------
(* Inputs *)

\* Authorization headers, as split at spaces
AuthHeaders ==
    { <<>>,
      <<"Bearer", "jwtA">>, <<"bearer", "jwtB">>, <<"Bearer", "jwtAdminA">>,
      <<"Bearer", "jwtExpiredA">>, <<"Bearer", "jwtForgedB">>, <<"Bearer", "garbage">>,
      <<"Basic", "dXNlcjpwdw">>, <<"Bearer">>, <<"Bearer", "", "jwtA">> }

\* X-API-Key headers; "" is the absent header
ApiKeys == {"", "tk_A", "lk_B", "tk_unknown", "lk_unknown"}

\* X-Account-ID headers a client may send itself
ClientAccountHeaders == {"", "B"}

\* X-Role headers a client may send itself
ClientRoleHeaders == {"", "admin"}

\* credentials of the requests sent to the gateway
GatewayCreds == { <<>>, <<"Bearer", "jwtA">> }

\* where arguments of a GraphQL list query; << >> is the absent argument
WhereArgs == { <<>>, <<"1", "=", "1">>, <<"account_id", "=", "'B'">> }

\* limit arguments; << >> is the absent argument
GraphQLLimits == { <<>>, <<1>> }
MCPLimits == { <<>>, <<0>>, <<1>>, <<1000>>, <<1000000>>, <<-1>> }

\* JSON bodies of POST /api/v1/{table}
Payloads ==
    { [c \in {"account_id", "recipient"} |-> IF c = "account_id" THEN "B" ELSE "2348031111111"],
      [c \in {"account_id", "sender", "status"} |->
          CASE c = "account_id" -> "A" [] c = "sender" -> "ACME" [] c = "status" -> "approved"],
      [c \in {"sender"} |-> "ACME"] }

\* bodies of a bulk insert: one to MaxBulk payloads
BulkItems == UNION {[1..n -> Payloads] : n \in 1..MaxBulk}

\* the map orders of the items of a bulk body, one order per item
RECURSIVE OrderSeqs(_)
OrderSeqs(items) ==
    IF items = <<>> THEN {<<>>}
    ELSE {<<o>> \o rest : o \in KeyOrders(Head(items)), rest \in OrderSeqs(Tail(items))}

\* permissions an administrator may set on top of the defaults
PermInputs ==
    { TablePermission(RoleAnonymous, "accounts",
          Perm(FALSE, NilMap, NilMap, 0), NoPerm, NoPerm, NoPerm),
      TablePermission(RoleReseller, "campaigns",
          Perm(TRUE, EmptyMap, NilMap, 0),
          Perm(FALSE, NilMap, NilMap, 0),
          Perm(TRUE, Map([c \in {"account_id", "status"} |->
                             IF c = "account_id" THEN "X-Account-ID" ELSE "'active'"]), NilMap, 0),
          Perm(TRUE, NilMap, NilMap, 0)) }

\* statements handed to ApplyRLS: the shapes built by handleList, handleGetOne,
\* handleUpdate and handleDelete, and a bare select
RLSQueries(t) ==
    { <<"SELECT", "*", "FROM", t>>,
      <<"SELECT", "*", "FROM", t, "LIMIT", "100">>,
      <<"SELECT", "*", "FROM", t, "WHERE", "id", "=", "$1">>,
      <<"UPDATE", t, "SET", "status", "=", "$1", "WHERE", "id", "=", "$2",
        "RETURNING", "*">>,
      <<"DELETE", "FROM", t, "WHERE", "id", "=", "$1", "RETURNING", "*">> }

RLSTables == {"accounts", "sender_ids", "campaigns", "audit_log"}

RLSClaims ==
    { AnonymousClaims, Claims("A", RoleUser, TRUE), Claims("B", RoleUser, FALSE),
      Claims("A", RoleAdmin, TRUE), Claims("R", RoleReseller, TRUE) }

-----------------------------------------------------------------------------
(* apps/api-gateway/gateway.go: the engine, its schema and its handlers *)

\* schema loads in one behaviour
MaxLoads == 2

\* base tables the store's catalog may come to hold
MaxTables == 2

\* base tables of the store (migrations/lumadb/001_initial_schema.sql and
\* microservices/payment-service/schema/payments.sql), in creation order
CatalogNames == <<"accounts", "payments", "sms_history">>

\* the primary key column of a base table
CatalogPK(name) == IF name = "payments" THEN "payment_id" ELSE "id"

\* &Schema{Tables: make([]TableSchema, 0), ...}
NewSchema == [Tables |-> <<>>]

TableSchema(name, pk) == [Name |-> name, PrimaryKey |-> pk]

\* the names of the tables of a Schema value
TableNames(schema) == {schema.Tables[i].Name : i \in 1..Len(schema.Tables)}

LoaderIdle ==
    [pc |-> "idle", id |-> 0, names |-> <<>>, i |-> 0, loads |-> 0,
     err |-> FALSE, live |-> FALSE, published |-> {}, prev |-> 0, found |-> {}]

ReadyIdle ==
    [pc |-> "idle", obs |-> <<>>, ready |-> FALSE, tables |-> 0, status |-> 0]

\* before GenerateAPIs: no handler, no route, no tool
NoAPIs ==
    [generated |-> FALSE, serving |-> FALSE, err |-> FALSE, schema |-> 0,
     rest |-> {}, graphql |-> {}, ws |-> 0, mcp |-> [n \in {} |-> {}]]

NoInflight == [pc |-> "idle", table |-> "", snap |-> 0, err |-> FALSE]

\* NewUnifiedAPIEngine: nil schema, unlocked mutex, nothing generated
InitEngine ==
    /\ catalog = <<>>
    /\ schemas = <<>>
    /\ eschema = 0
    /\ mu = "free"
    /\ loader = LoaderIdle
    /\ ready = ReadyIdle
    /\ apis = NoAPIs
    /\ inflight = NoInflight

\* connections the WebSocket endpoint may see, and addresses their objects may get
Conns == {"c1", "c2", "c3"}

Addrs == {"0xc0001", "0xc0002"}

NoConn == [pc |-> "none", addr |-> "", last |-> ""]

\* control messages a client may send: the two known types, an unknown type,
\* and bytes that are not JSON
WSMessages == {"subscribe", "unsubscribe", "ping", "not-json"}

\* NewWebSocketHandler: an empty sync.Map
InitWS ==
    /\ clients = [a \in {} |-> ""]
    /\ wsConn = [c \in Conns |-> NoConn]


-----------------------------------------------------------------------------
(* services/sms-service: data.  Amounts are tenths of a currency unit. *)

\* the recipient limits of handleBulkSend
TestMaxRecipients == 5
MaxBulkRecipients == 1000

\* recipients of a bulk request too short for getNetwork, at most
MaxShort == 1

\* the accounts of the store; account ids are 8 characters or longer
SmsAccounts == {"acc-0001"}

\* X-Account-ID headers: an account, an id the store does not hold
SmsAccountHeaders == SmsAccounts \cup {"acc-9999"}

\* len(accountID)
IdLen(a) == IF a = "" THEN 0 ELSE 8

InitialBalance == [a \in SmsAccounts |-> 60]

\* getRate: the rates map, 3.0 by default
getRate(msgType) == IF msgType = "promotional" THEN 25 ELSE 30

\* the approved rows of sender_ids
SenderIDs ==
    { [sender |-> "ACME", type |-> "promotional", account_id |-> "acc-0001",
       is_general |-> FALSE] }

\* validateSenderID: COUNT(*) > 0 over the approved sender_ids rows
validateSenderID(accountID, sender, smsType) ==
    \E row \in SenderIDs :
        /\ (row.account_id = accountID \/ row.is_general)
        /\ row.sender = sender
        /\ row.type = smsType

\* a handler goroutine with no request; calls, sent, rows and charged count the
\* store calls, provider sends, sms_history rows and amount charged by the request
NoSms ==
    [pc |-> "idle", kind |-> "", accountID |-> "", isLive |-> FALSE,
     n |-> 0, short |-> 0, message |-> "", type |-> "", from |-> "",
     status |-> 0, panicked |-> FALSE, read |-> 0,
     calls |-> 0, sent |-> 0, rows |-> 0, charged |-> 0]

ReqIds == {1, 2}

\* POST /send bodies and headers: To is empty or one number
SendRequests ==
    { [NoSms EXCEPT !.kind = "send", !.accountID = a, !.isLive = l,
                    !.n = n, !.message = m] :
        a \in SmsAccountHeaders, l \in BOOLEAN, n \in {0, 1}, m \in {"", "hi"} }

RecipientCounts ==
    {0, 1, TestMaxRecipients, TestMaxRecipients + 1,
     MaxBulkRecipients, MaxBulkRecipients + 1}

\* POST /bulk bodies and headers
AllBulkRequests ==
    { [NoSms EXCEPT !.kind = "bulk", !.accountID = a, !.isLive = l, !.n = n,
                    !.short = k, !.message = m, !.type = t, !.from = f] :
        a \in {"", "acc-0001"}, l \in BOOLEAN, n \in RecipientCounts,
        k \in 0..MaxShort, m \in {"", "hi"},
        t \in {"", "promotional"}, f \in {"", "ACME"} }

BulkRequests == { b \in AllBulkRequests : b.short <= b.n }

\* the bulk requests sent while other requests are in flight
LiveBulkRequests ==
    { b \in BulkRequests :
        /\ b.accountID = "acc-0001"
        /\ b.isLive
        /\ b.n \in {1, 2}
        /\ b.short = 0
        /\ b.message = "hi"
        /\ b.type = "promotional" }

InitSms ==
    /\ balance = InitialBalance
    /\ reqs = [r \in ReqIds |-> NoSms]

\* DLRBuffer: at most MaxQueued calls of queue, flushed FlushBatchSize at a time
MaxQueued == 4
FlushBatchSize == 2

MessageIDs == {"m1", "m2"}

\* the statuses processDLRCallback hands to queue
DLRStatuses == {"delivered", "failed", "pending"}

\* &DLRBuffer{delivered: make([]string, 0), failed: make([]string, 0)};
\* queued lists the calls of queue, batches the calls of updateStatusBatch
InitDLR ==
    dlr = [delivered |-> <<>>, failed |-> <<>>,
           queued |-> <<>>, batches |-> <<>>, flushes |-> 0]

-----------------------------------------------------------------------------
(* packages/llm-orchestrator: the response Cache.  Time is a counter. *)

\* c.ttl, and the last instant of the clock
TTL == 2
MaxClock == 3

CacheKeys == {"k1"}
Contents == {"c1", "c2"}
Getters == {1, 2}

\* no *cacheEntry under a key; no *CompletionResponse
NoEntry == [present |-> FALSE, content |-> "", expiry |-> 0]
NilResponse == [isNil |-> TRUE, content |-> ""]

\* no Set so far under a key
NeverSet == [set |-> FALSE, content |-> "", at |-> 0]

\* a caller outside Get; seen and final are the last Set of its key when Get
\* loaded the entry and when it returned, at the instant of the return
NoGet ==
    [pc |-> "idle", key |-> "", entry |-> NoEntry, result |-> NilResponse,
     seen |-> NeverSet, final |-> NeverSet, at |-> 0, dropped |-> FALSE]

\* NewCache
InitCache ==
    cache = [data |-> [k \in CacheKeys |-> NoEntry],
             now |-> 0,
             last |-> [k \in CacheKeys |-> NeverSet],
             get |-> [g \in Getters |-> NoGet]]

InitSvc == InitSms /\ InitDLR /\ InitCache

-----------------------------------------------------------------------------
(* State machine *)

NoCall == [kind |-> "none"]

\* the claims Middleware resolves for the credentials of a gateway request
ClaimsOf(req) == ResolveClaims(req.authParts, req.apiKey, store["accounts"]).claims

Init ==
    /\ InitEngine
    /\ InitWS
    /\ InitSvc
    /\ permissions = DefaultPermissions
    /\ store \in {SmallStore, BigStore}
    /\ out = NoCall
    /\ cur = NoRequest
    /\ inserts = 0

\* GET /api/v1/{table}
RESTList ==
    \E table \in Tables, creds \in GatewayCreds :
        /\ cur' = handleList(store, table, creds, "")
        /\ UNCHANGED <<permissions, store, out, inserts, engineVars, wsVars, svcVars>>

\* POST /graphql with a plural query
GraphQLList ==
    \E table \in Tables, creds \in GatewayCreds, where \in WhereArgs, limit \in GraphQLLimits :
        /\ cur' = resolveList(store, table, creds, "", where, limit)
        /\ UNCHANGED <<permissions, store, out, inserts, engineVars, wsVars, svcVars>>

\* POST /mcp/tools/list_{table}/execute
MCPList ==
    \E table \in Tables, creds \in GatewayCreds, limit \in MCPLimits :
        /\ cur' = mcpListTool(store, table, creds, "", limit)
        /\ UNCHANGED <<permissions, store, out, inserts, engineVars, wsVars, svcVars>>

\* POST /api/v1/{table}
RESTCreate ==
    \E table \in Tables, creds \in GatewayCreds, payload \in Payloads :
      \E order \in KeyOrders(payload) :
        /\ inserts < MaxInserts
        /\ cur' = handleCreate(store, table, creds, "", payload, order)
        /\ store' = ExecInsert(store, cur'.calls[1].stmt, cur'.calls[1].args).store
        /\ inserts' = inserts + 1
        /\ UNCHANGED <<permissions, out, engineVars, wsVars, svcVars>>

\* POST /api/v1/{table}/bulk
RESTBulkCreate ==
    \E table \in Tables, creds \in GatewayCreds, items \in BulkItems :
      \E orders \in OrderSeqs(items) :
        /\ inserts + Len(items) <= MaxInserts
        /\ cur' = handleBulkCreate(store, table, creds, "", items, orders).req
        /\ store' = handleBulkCreate(store, table, creds, "", items, orders).store
        /\ inserts' = inserts + Len(items)
        /\ UNCHANGED <<permissions, out, engineVars, wsVars, svcVars>>

Next == RESTList \/ GraphQLList \/ MCPList \/ RESTCreate \/ RESTBulkCreate

Spec == Init /\ [][Next]_vars

-----------------------------------------------------------------------------
(* The authorization engine on its own *)

InitAuth ==
    /\ InitEngine
    /\ InitWS
    /\ InitSvc
    /\ permissions = DefaultPermissions
    /\ store = SmallStore
    /\ out = NoCall
    /\ cur = NoRequest
    /\ inserts = 0

\* an administrative write of the permission table
AdminSetPermission ==
    \E perm \in PermInputs :
        /\ permissions' = setPermission(permissions, perm)
        /\ UNCHANGED <<store, out, cur, inserts, engineVars, wsVars, svcVars>>

\* a call of ApplyRLS; the permission table it ran against is kept with the result
CallApplyRLS ==
    \E table \in RLSTables, op \in Ops, claims \in RLSClaims :
      \E query \in RLSQueries(table) :
        \E order \in KeyOrders(RLSFilter(permissions, table, op, claims).m) :
          /\ out' = [kind |-> "rls", query |-> query, table |-> table, op |-> op,
                     claims |-> claims, order |-> order,
                     perms |-> permissions,
                     res |-> ApplyRLS(permissions, query, table, op, claims, order)]
          /\ UNCHANGED <<permissions, store, cur, inserts, engineVars, wsVars, svcVars>>

\* a request passing through Middleware
ServeMiddleware ==
    \E authParts \in AuthHeaders, apiKey \in ApiKeys,
       xAccountID \in ClientAccountHeaders, xRole \in ClientRoleHeaders :
        /\ out' = Middleware(authParts, apiKey, xAccountID, xRole, store["accounts"])
        /\ UNCHANGED <<permissions, store, cur, inserts, engineVars, wsVars, svcVars>>

NextAuth == AdminSetPermission \/ CallApplyRLS \/ ServeMiddleware

SpecAuth == InitAuth /\ [][NextAuth]_vars

\* requests passing through Middleware alone
NextMiddleware == ServeMiddleware

SpecMiddleware == InitAuth /\ [][NextMiddleware]_vars

-----------------------------------------------------------------------------
(* The engine: schema loading, API generation, readiness *)

\* a migration creates the next base table in the store
CreateTable ==
    /\ Len(catalog) < MaxTables
    /\ catalog' = SubSeq(CatalogNames, 1, Len(catalog) + 1)
    /\ UNCHANGED <<schemas, eschema, mu, loader, ready, apis, inflight>>
    /\ UNCHANGED <<gatewayVars, wsVars, svcVars>>

\* LoadSchemaFromDB, entry: e.mu.Lock(), then the local schema is allocated
LoadLock ==
    /\ loader.pc = "idle"
    /\ loader.loads < MaxLoads
    /\ mu = "free"
    /\ mu' = "loader"
    /\ schemas' = Append(schemas, NewSchema)
    /\ loader' = [loader EXCEPT !.pc = "tables", !.id = Len(schemas) + 1,
                                !.names = <<>>, !.i = 0, !.err = FALSE,
                                !.live = apis.serving, !.loads = @ + 1,
                                !.prev = eschema]
    /\ UNCHANGED <<catalog, eschema, ready, apis, inflight>>
    /\ UNCHANGED <<gatewayVars, wsVars, svcVars>>

\* the position of the loop over tableNames after the table at index i
AfterTable(ld) ==
    [ld EXCEPT !.i = @ + 1,
               !.pc = IF ld.i + 1 > Len(ld.names) THEN "publish" ELSE "columns"]

\* LoadSchemaFromDB: the query of information_schema.tables.  On an error the
\* function returns it, and the deferred Unlock runs.
LoadQueryTables ==
    /\ loader.pc = "tables"
    /\ \E ok \in BOOLEAN :
        IF ok
        THEN /\ loader' = AfterTable([loader EXCEPT !.names = catalog, !.i = 0])
             /\ mu' = mu
        ELSE /\ loader' = [loader EXCEPT !.pc = "idle", !.err = TRUE]
             /\ mu' = "free"
    /\ UNCHANGED <<catalog, schemas, eschema, ready, apis, inflight>>
    /\ UNCHANGED <<gatewayVars, wsVars, svcVars>>

\* LoadSchemaFromDB: the query of information_schema.columns for one table.
\* On an error the table is skipped (continue).
LoadQueryColumns ==
    /\ loader.pc = "columns"
    /\ \E ok \in BOOLEAN :
        loader' = IF ok THEN [loader EXCEPT !.pc = "pk"] ELSE AfterTable(loader)
    /\ UNCHANGED <<catalog, schemas, eschema, mu, ready, apis, inflight>>
    /\ UNCHANGED <<gatewayVars, wsVars, svcVars>>

\* LoadSchemaFromDB: the query of the primary key for one table, "id" when the
\* scan fails, then the table is appended to the local schema
LoadQueryPKNoFallback ==
    /\ loader.pc = "pk"
    /\ \E ok \in BOOLEAN :
        LET name == loader.names[loader.i]
            pk == IF ok THEN CatalogPK(name) ELSE ""
        IN  /\ schemas' = [schemas EXCEPT ![loader.id].Tables =
                                Append(@, TableSchema(name, pk))]
            /\ loader' = AfterTable([loader EXCEPT !.found =
                                        IF ok THEN @ \cup {name} ELSE @])
    /\ UNCHANGED <<catalog, eschema, mu, ready, apis, inflight>>
    /\ UNCHANGED <<gatewayVars, wsVars, svcVars>>

LoadQueryPK ==
    /\ loader.pc = "pk"
    /\ \E ok \in BOOLEAN :
        LET name == loader.names[loader.i]
            pk == IF ok THEN CatalogPK(name) ELSE "id"
        IN  /\ schemas' = [schemas EXCEPT ![loader.id].Tables =
                                Append(@, TableSchema(name, pk))]
            /\ loader' = AfterTable([loader EXCEPT !.found =
                                        IF ok THEN @ \cup {name} ELSE @])
    /\ UNCHANGED <<catalog, eschema, mu, ready, apis, inflight>>
    /\ UNCHANGED <<gatewayVars, wsVars, svcVars>>

\* LoadSchemaFromDB: e.schema = schema
LoadPublish ==
    /\ loader.pc = "publish"
    /\ eschema' = loader.id
    /\ loader' = [loader EXCEPT !.pc = "return", !.published = @ \cup {loader.id}]
    /\ UNCHANGED <<catalog, schemas, mu, ready, apis, inflight>>
    /\ UNCHANGED <<gatewayVars, wsVars, svcVars>>

\* LoadSchemaFromDB: return nil, and the deferred e.mu.Unlock()
LoadReturn ==
    /\ loader.pc = "return"
    /\ mu' = "free"
    /\ loader' = [loader EXCEPT !.pc = "idle", !.found = {}]
    /\ UNCHANGED <<catalog, schemas, eschema, ready, apis, inflight>>
    /\ UNCHANGED <<gatewayVars, wsVars, svcVars>>

\* MCPHandler.registerTableTools: the tools of one table, by name, with the
\* required inputs of each
registerTableToolsWithoutGet(tools, table) ==
    [n \in DOMAIN tools \cup {"list_" \o table.Name} |->
        IF n = "list_" \o table.Name THEN {} ELSE tools[n]]

registerTableTools(tools, table) ==
    [n \in DOMAIN tools \cup {"list_" \o table.Name, "get_" \o table.Name} |->
        IF n = "get_" \o table.Name THEN {"id"}
        ELSE IF n = "list_" \o table.Name THEN {}
        ELSE tools[n]]

\* NewMCPHandler: the loop over schema.Tables from the k-th table on
RECURSIVE RegisterFrom(_, _, _)
RegisterFrom(tools, tables, k) ==
    IF k > Len(tables) THEN tools
    ELSE RegisterFrom(registerTableTools(tools, tables[k]), tables, k + 1)

NewMCPHandler(schema) == RegisterFrom([n \in {} |-> {}], schema.Tables, 1)

\* GenerateAPIs with every protocol enabled: an error when no schema is
\* loaded; otherwise each handler is built from the schema e.schema points to
\* at this moment and keeps that pointer.  The routes are mounted once.
GenerateAPIs ==
    /\ ~apis.generated
    /\ apis' = IF eschema = 0 THEN [apis EXCEPT !.err = TRUE]
               ELSE [apis EXCEPT
                        !.generated = TRUE, !.err = FALSE, !.schema = eschema,
                        !.graphql = TableNames(schemas[eschema]),
                        !.rest = TableNames(schemas[eschema]),
                        !.ws = eschema,
                        !.mcp = NewMCPHandler(schemas[eschema])]
    /\ apis' # apis
    /\ UNCHANGED <<catalog, schemas, eschema, mu, loader, ready, inflight>>
    /\ UNCHANGED <<gatewayVars, wsVars, svcVars>>

\* Start: http.ListenAndServe on the router
Start ==
    /\ apis.generated
    /\ ~apis.serving
    /\ apis' = [apis EXCEPT !.serving = TRUE]
    /\ UNCHANGED <<catalog, schemas, eschema, mu, loader, ready, inflight>>
    /\ UNCHANGED <<gatewayVars, wsVars, svcVars>>

\* readinessCheck, first read of e.schema: e.schema != nil, in ready's first
\* operand.  The method reads e.schema without taking e.mu; it is served at
\* /ready and can be called on an engine directly.
ReadyNilCheck ==
    /\ ready.pc = "idle"
    /\ ready' = [ReadyIdle EXCEPT
                    !.obs = <<eschema>>,
                    !.pc = IF eschema = 0 THEN "tables" ELSE "len"]
    /\ UNCHANGED <<catalog, schemas, eschema, mu, loader, apis, inflight>>
    /\ UNCHANGED <<gatewayVars, wsVars, svcVars>>

\* readinessCheck, second read: len(e.schema.Tables) > 0
ReadyLenAnySchema ==
    /\ ready.pc = "len"
    /\ ready' = [ready EXCEPT
                    !.obs = Append(@, eschema),
                    !.ready = TRUE,
                    !.pc = "tables"]
    /\ UNCHANGED <<catalog, schemas, eschema, mu, loader, apis, inflight>>
    /\ UNCHANGED <<gatewayVars, wsVars, svcVars>>

ReadyLen ==
    /\ ready.pc = "len"
    /\ ready' = [ready EXCEPT
                    !.obs = Append(@, eschema),
                    !.ready = Len(schemas[eschema].Tables) > 0,
                    !.pc = "tables"]
    /\ UNCHANGED <<catalog, schemas, eschema, mu, loader, apis, inflight>>
    /\ UNCHANGED <<gatewayVars, wsVars, svcVars>>

\* readinessCheck, third read: if e.schema != nil { tables = len(e.schema.Tables) }
ReadyTables ==
    /\ ready.pc = "tables"
    /\ ready' = [ready EXCEPT
                    !.obs = Append(@, eschema),
                    !.tables = IF eschema = 0 THEN 0 ELSE Len(schemas[eschema].Tables),
                    !.pc = "respond"]
    /\ UNCHANGED <<catalog, schemas, eschema, mu, loader, apis, inflight>>
    /\ UNCHANGED <<gatewayVars, wsVars, svcVars>>

\* readinessCheck: 503 unless ready, then the body
ReadyRespond ==
    /\ ready.pc = "respond"
    /\ ready' = [ready EXCEPT !.status = IF ready.ready THEN 200 ELSE 503,
                              !.pc = "idle"]
    /\ UNCHANGED <<catalog, schemas, eschema, mu, loader, apis, inflight>>
    /\ UNCHANGED <<gatewayVars, wsVars, svcVars>>

\* a request enters a generated REST route; the handler works with its schema
RouteRequest ==
    /\ apis.serving
    /\ inflight.pc # "started"
    /\ \E t \in apis.rest :
        inflight' = [pc |-> "started", table |-> t, snap |-> apis.schema, err |-> FALSE]
    /\ UNCHANGED <<catalog, schemas, eschema, mu, loader, ready, apis>>
    /\ UNCHANGED <<gatewayVars, wsVars, svcVars>>

\* the request's statement runs and the answer is written; it fails when the
\* store has no such table
FinishRequest ==
    /\ inflight.pc = "started"
    /\ inflight' = [inflight EXCEPT
                        !.pc = "done",
                        !.err = ~(\E i \in 1..Len(catalog) : catalog[i] = inflight.table)]
    /\ UNCHANGED <<catalog, schemas, eschema, mu, loader, ready, apis>>
    /\ UNCHANGED <<gatewayVars, wsVars, svcVars>>

InitSchema ==
    /\ InitEngine
    /\ InitWS
    /\ InitSvc
    /\ permissions = DefaultPermissions
    /\ store = SmallStore
    /\ out = NoCall
    /\ cur = NoRequest
    /\ inserts = 0

NextSchema ==
    \/ CreateTable
    \/ LoadLock \/ LoadQueryTables \/ LoadQueryColumns \/ LoadQueryPK
    \/ LoadPublish \/ LoadReturn
    \/ GenerateAPIs \/ Start
    \/ ReadyNilCheck \/ ReadyLen \/ ReadyTables \/ ReadyRespond
    \/ RouteRequest \/ FinishRequest

SpecSchema == InitSchema /\ [][NextSchema]_vars

\* schema loads and readiness checks alone
NextReady ==
    \/ CreateTable
    \/ LoadLock \/ LoadQueryTables \/ LoadQueryColumns \/ LoadQueryPK
    \/ LoadPublish \/ LoadReturn
    \/ ReadyNilCheck \/ ReadyLen \/ ReadyTables \/ ReadyRespond

SpecReady == InitSchema /\ [][NextReady]_vars

\* schema loads alone
NextLoad ==
    \/ CreateTable
    \/ LoadLock \/ LoadQueryTables \/ LoadQueryColumns \/ LoadQueryPK
    \/ LoadPublish \/ LoadReturn

SpecLoad == InitSchema /\ [][NextLoad]_vars

\* schema loads and API generation alone
NextGenerate ==
    \/ CreateTable
    \/ LoadLock \/ LoadQueryTables \/ LoadQueryColumns \/ LoadQueryPK
    \/ LoadPublish \/ LoadReturn
    \/ GenerateAPIs \/ Start

SpecGenerate == InitSchema /\ [][NextGenerate]_vars

-----------------------------------------------------------------------------
(* WebSocketHandler.ServeHTTP: one goroutine per connection *)

\* the addresses of the connection objects still referenced by a handler
LiveAddrs == {wsConn[c].addr : c \in {d \in Conns : wsConn[d].pc \notin {"none", "closed"}}}

\* h.upgrader.Upgrade: on an error the handler returns; otherwise the
\* connection object is allocated at an address no live object has
WSUpgrade(c) ==
    /\ wsConn[c].pc = "none"
    /\ \/ wsConn' = [wsConn EXCEPT ![c].pc = "closed"]
       \/ \E a \in Addrs \ LiveAddrs :
            wsConn' = [wsConn EXCEPT ![c].pc = "upgraded", ![c].addr = a]
    /\ UNCHANGED clients
    /\ UNCHANGED <<gatewayVars, engineVars, svcVars>>

\* clientID := fmt.Sprintf("%p", conn); h.clients.Store(clientID, conn)
WSStore(c) ==
    /\ wsConn[c].pc = "upgraded"
    /\ clients' = [a \in DOMAIN clients \cup {wsConn[c].addr} |->
                      IF a = wsConn[c].addr THEN c ELSE clients[a]]
    /\ wsConn' = [wsConn EXCEPT ![c].pc = "loop"]
    /\ UNCHANGED <<gatewayVars, engineVars, svcVars>>

\* conn.ReadMessage returns a message: bytes that do not unmarshal are skipped
\* (continue), subscribe and unsubscribe are logged, other types are ignored
WSReadMessage(c) ==
    /\ wsConn[c].pc = "loop"
    /\ \E m \in WSMessages :
        /\ wsConn[c].last # m
        /\ wsConn' = [wsConn EXCEPT ![c].last = m]
    /\ UNCHANGED clients
    /\ UNCHANGED <<gatewayVars, engineVars, svcVars>>

\* conn.ReadMessage returns an error (disconnect or read error): break
WSReadError(c) ==
    /\ wsConn[c].pc = "loop"
    /\ wsConn' = [wsConn EXCEPT ![c].pc = "closing"]
    /\ UNCHANGED clients
    /\ UNCHANGED <<gatewayVars, engineVars, svcVars>>

\* defer h.clients.Delete(clientID)
WSDeleteNothing(c) ==
    /\ wsConn[c].pc = "closing"
    /\ clients' = clients
    /\ wsConn' = [wsConn EXCEPT ![c].pc = "deleted"]
    /\ UNCHANGED <<gatewayVars, engineVars, svcVars>>

WSDelete(c) ==
    /\ wsConn[c].pc = "closing"
    /\ clients' = [a \in DOMAIN clients \ {wsConn[c].addr} |-> clients[a]]
    /\ wsConn' = [wsConn EXCEPT ![c].pc = "deleted"]
    /\ UNCHANGED <<gatewayVars, engineVars, svcVars>>

\* defer conn.Close(), and the handler returns
WSClose(c) ==
    /\ wsConn[c].pc = "deleted"
    /\ wsConn' = [wsConn EXCEPT ![c].pc = "closed"]
    /\ UNCHANGED clients
    /\ UNCHANGED <<gatewayVars, engineVars, svcVars>>

NextWS ==
    \E c \in Conns :
        \/ WSUpgrade(c) \/ WSStore(c) \/ WSReadMessage(c)
        \/ WSReadError(c) \/ WSDelete(c) \/ WSClose(c)

SpecWS == InitSchema /\ [][NextWS]_vars

-----------------------------------------------------------------------------
(* apps/api-gateway/gateway.go: naming helpers.  A Go string is the sequence
   of its characters. *)

\* longest generated name
MaxNameLen == 4

LowerLetters == <<"a", "b", "c", "d", "e", "f", "g", "h", "i", "j", "k", "l", "m", "n", "o", "p", "q", "r", "s", "t", "u", "v", "w", "x", "y", "z">>

UpperLetters == <<"A", "B", "C", "D", "E", "F", "G", "H", "I", "J", "K", "L", "M", "N", "O", "P", "Q", "R", "S", "T", "U", "V", "W", "X", "Y", "Z">>

\* unicode.ToTitle of one character: lower-case letters change, others stay
ToTitleChar(c) ==
    IF \E i \in 1..26 : LowerLetters[i] = c
    THEN UpperLetters[CHOOSE i \in 1..26 : LowerLetters[i] = c]
    ELSE c

\* strings.Split(s, "_"): the parts between the separators, empty parts kept
RECURSIVE Split(_)
Split(s) ==
    IF \A i \in 1..Len(s) : s[i] # "_" THEN <<s>>
    ELSE LET k == CHOOSE i \in 1..Len(s) :
                     s[i] = "_" /\ \A j \in 1..(i - 1) : s[j] # "_"
         IN  <<SubSeq(s, 1, k - 1)>> \o Split(SubSeq(s, k + 1, Len(s)))

\* strings.Title of a part without separators: its first character in title case
Title(part) ==
    IF part = <<>> THEN <<>>
    ELSE <<ToTitleChar(part[1])>> \o SubSeq(part, 2, Len(part))

\* strings.Join(parts, "")
RECURSIVE Join(_)
Join(parts) == IF parts = <<>> THEN <<>> ELSE Head(parts) \o Join(Tail(parts))

toCamelCase(s) ==
    LET parts == Split(s)
    IN  Join([i \in 1..Len(parts) |-> IF i = 1 THEN parts[i] ELSE Title(parts[i])])

toPascalCase(s) ==
    LET parts == Split(s)
    IN  Join([i \in 1..Len(parts) |-> Title(parts[i])])

HasSuffix(s, c) == Len(s) > 0 /\ s[Len(s)] = c

toPluralAppendS(s) == s \o <<"s">>

toPlural(s) ==
    IF HasSuffix(s, "s") THEN s \o <<"e", "s">>
    ELSE IF HasSuffix(s, "y") THEN SubSeq(s, 1, Len(s) - 1) \o <<"i", "e", "s">>
    ELSE s \o <<"s">>

\* names of the schema and of the tests
SchemaWords ==
    { <<"s", "m", "s", "_", "h", "i", "s", "t", "o", "r", "y">>,
      <<"i", "d">>,
      <<"a", "c", "c", "o", "u", "n", "t">>,
      <<"h", "i", "s", "t", "o", "r", "y">>,
      <<"s", "t", "a", "t", "u", "s">>,
      <<"a", "c", "c", "o", "u", "n", "t", "_", "i", "d">>,
      <<"f", "i", "r", "s", "t", "_", "n", "a", "m", "e", "_", "l", "a", "s", "t">>,
      <<"a", "c", "c", "o", "u", "n", "t", "s">> }

\* every name of at most MaxNameLen characters over a small alphabet
NameChars == {"a", "s", "y", "_"}

NameInputs == SchemaWords \cup UNION {[1..n -> NameChars] : n \in 0..MaxNameLen}

\* the three transforms applied to one name
ApplyNaming ==
    /\ out = NoCall
    /\ \E s \in NameInputs :
        out' = [kind |-> "naming", input |-> s, camel |-> toCamelCase(s),
                pascal |-> toPascalCase(s), plural |-> toPlural(s)]
    /\ UNCHANGED <<permissions, store, cur, inserts, engineVars, wsVars, svcVars>>

NextNaming == ApplyNaming

SpecNaming == InitSchema /\ [][NextNaming]_vars

-----------------------------------------------------------------------------
(* services/sms-service: handleSend and handleBulkSend, one step per store call *)

SmsDone(q, status) == [q EXCEPT !.pc = "done", !.status = status]

\* handleSend: the body is decoded and validated, the headers are read
SendBegin(r, q) ==
    /\ reqs[r].pc \in {"idle", "done"}
    /\ reqs' = [reqs EXCEPT ![r] =
                    IF q.n = 0 \/ q.message = ""
                    THEN SmsDone(q, 400)
                    ELSE [q EXCEPT !.pc = "balance"]]
    /\ UNCHANGED <<balance, dlr, cache>>
    /\ UNCHANGED <<gatewayVars, engineVars, wsVars>>

\* handleSend: SELECT balance FROM accounts, then the balance check
SendCheckBalance(r) ==
    /\ reqs[r].pc = "balance"
    /\ reqs[r].kind = "send"
    /\ LET q == [reqs[r] EXCEPT !.calls = @ + 1] IN
       reqs' = [reqs EXCEPT ![r] =
                    IF q.accountID \notin DOMAIN balance
                    THEN SmsDone(q, 401)
                    ELSE IF q.isLive /\ balance[q.accountID] < getRate("otp")
                    THEN SmsDone([q EXCEPT !.read = balance[q.accountID]], 402)
                    ELSE IF IdLen(q.accountID) < 8
                    THEN [SmsDone(q, 0) EXCEPT !.panicked = TRUE]
                    ELSE [q EXCEPT !.pc = "provider", !.read = balance[q.accountID]]]
    /\ UNCHANGED <<balance, dlr, cache>>
    /\ UNCHANGED <<gatewayVars, engineVars, wsVars>>

\* handleSend: sendViaProvider and logSMS
SendProvider(r) ==
    /\ reqs[r].pc = "provider"
    /\ \E ok \in BOOLEAN :
        LET q == [reqs[r] EXCEPT !.sent = @ + 1, !.rows = @ + 1, !.calls = @ + 1] IN
        reqs' = [reqs EXCEPT ![r] =
                    IF ~ok THEN SmsDone(q, 500)
                    ELSE IF q.isLive THEN [q EXCEPT !.pc = "deduct"]
                    ELSE SmsDone(q, 200)]
    /\ UNCHANGED <<balance, dlr, cache>>
    /\ UNCHANGED <<gatewayVars, engineVars, wsVars>>

\* deductBalance: UPDATE accounts SET balance = balance - $1 WHERE id = $2
deductBalance(bal, accountID, amount) ==
    IF accountID \in DOMAIN bal
    THEN [bal EXCEPT ![accountID] = @ - amount]
    ELSE bal

\* handleSend: deductBalance and the response
SendDeduct(r) ==
    /\ reqs[r].pc = "deduct"
    /\ reqs[r].kind = "send"
    /\ balance' = deductBalance(balance, reqs[r].accountID, getRate("otp"))
    /\ reqs' = [reqs EXCEPT ![r] =
                    SmsDone([@ EXCEPT !.calls = @ + 1, !.charged = getRate("otp")], 200)]
    /\ UNCHANGED <<dlr, cache>>
    /\ UNCHANGED <<gatewayVars, engineVars, wsVars>>

\* handleBulkSend: the checks made before the first store call; TRUE rejects
bulkRejectsLiveOnly(q) ==
    \/ q.n = 0 \/ q.message = "" \/ q.type = ""
    \/ q.n > MaxBulkRecipients

bulkRejects(q) ==
    \/ q.n = 0 \/ q.message = "" \/ q.type = ""
    \/ (~q.isLive /\ q.n > TestMaxRecipients)
    \/ q.n > MaxBulkRecipients

\* the step after the sender is settled
AfterSender(q) == IF q.isLive THEN "balance" ELSE "send"

\* handleBulkSend: decoding, validation, the default sender
BulkBegin(r, q) ==
    /\ reqs[r].pc \in {"idle", "done"}
    /\ reqs' = [reqs EXCEPT ![r] =
                    IF bulkRejects(q) THEN SmsDone(q, 400)
                    ELSE IF q.from = "" THEN [q EXCEPT !.pc = AfterSender(q)]
                    ELSE [q EXCEPT !.pc = "sender"]]
    /\ UNCHANGED <<balance, dlr, cache>>
    /\ UNCHANGED <<gatewayVars, engineVars, wsVars>>

\* handleBulkSend: validateSenderID
BulkValidateSender(r) ==
    /\ reqs[r].pc = "sender"
    /\ LET q == [reqs[r] EXCEPT !.calls = @ + 1] IN
       reqs' = [reqs EXCEPT ![r] =
                    IF validateSenderID(q.accountID, q.from, q.type)
                    THEN [q EXCEPT !.pc = AfterSender(q)]
                    ELSE SmsDone(q, 400)]
    /\ UNCHANGED <<balance, dlr, cache>>
    /\ UNCHANGED <<gatewayVars, engineVars, wsVars>>

\* handleBulkSend: the balance check for all recipients; a failed Scan leaves 0
BulkCheckBalance(r) ==
    /\ reqs[r].pc = "balance"
    /\ reqs[r].kind = "bulk"
    /\ LET bal == IF reqs[r].accountID \in DOMAIN balance
                  THEN balance[reqs[r].accountID] ELSE 0
           q == [reqs[r] EXCEPT !.calls = @ + 1, !.read = bal]
           totalCost == q.n * getRate(q.type)
       IN  reqs' = [reqs EXCEPT ![r] =
                        IF bal < totalCost THEN SmsDone(q, 402)
                        ELSE [q EXCEPT !.pc = "send"]]
    /\ UNCHANGED <<balance, dlr, cache>>
    /\ UNCHANGED <<gatewayVars, engineVars, wsVars>>

\* handleBulkSend: generateSID, the messages of the numbers getNetwork knows,
\* bulkSendViaProvider and bulkLogSMS
BulkSend(r) ==
    /\ reqs[r].pc = "send"
    /\ LET q == reqs[r]
           msgs == q.n - q.short
       IN  reqs' = [reqs EXCEPT ![r] =
                        IF IdLen(q.accountID) < 8
                        THEN [SmsDone(q, 0) EXCEPT !.panicked = TRUE]
                        ELSE LET s == [q EXCEPT !.sent = @ + msgs, !.rows = @ + msgs,
                                                !.calls = @ + msgs]
                             IN  IF q.isLive THEN [s EXCEPT !.pc = "deduct"]
                                 ELSE SmsDone(s, 200)]
    /\ UNCHANGED <<balance, dlr, cache>>
    /\ UNCHANGED <<gatewayVars, engineVars, wsVars>>

\* handleBulkSend: deductBalance for the results and the response
BulkDeduct(r) ==
    /\ reqs[r].pc = "deduct"
    /\ reqs[r].kind = "bulk"
    /\ LET totalCost == (reqs[r].n - reqs[r].short) * getRate(reqs[r].type) IN
       /\ balance' = deductBalance(balance, reqs[r].accountID, totalCost)
       /\ reqs' = [reqs EXCEPT ![r] =
                       SmsDone([@ EXCEPT !.calls = @ + 1, !.charged = totalCost], 200)]
    /\ UNCHANGED <<dlr, cache>>
    /\ UNCHANGED <<gatewayVars, engineVars, wsVars>>

\* POST /bulk, one request at a time
NextBulk ==
    \/ \E q \in BulkRequests : BulkBegin(1, q)
    \/ BulkValidateSender(1)
    \/ BulkCheckBalance(1)
    \/ BulkSend(1)
    \/ BulkDeduct(1)

SpecBulk == InitSchema /\ [][NextBulk]_vars

\* POST /send and POST /bulk served by concurrent goroutines
NextSms ==
    \E r \in ReqIds :
        \/ \E q \in SendRequests : SendBegin(r, q)
        \/ SendCheckBalance(r)
        \/ SendProvider(r)
        \/ SendDeduct(r)
        \/ \E q \in LiveBulkRequests : BulkBegin(r, q)
        \/ BulkValidateSender(r)
        \/ BulkCheckBalance(r)
        \/ BulkSend(r)
        \/ BulkDeduct(r)

SpecSms == InitSchema /\ [][NextSms]_vars

-----------------------------------------------------------------------------
(* services/sms-service: DLRBuffer.  queue and flush hold b.mu throughout. *)

\* DLRBuffer.queue
queue(messageID, status) ==
    /\ Len(dlr.queued) < MaxQueued
    /\ dlr' = [dlr EXCEPT
                  !.queued = Append(@, [id |-> messageID, status |-> status]),
                  !.delivered = IF status = "delivered" THEN Append(@, messageID) ELSE @,
                  !.failed = IF status = "failed" THEN Append(@, messageID) ELSE @]
    /\ UNCHANGED <<balance, reqs, cache>>
    /\ UNCHANGED <<gatewayVars, engineVars, wsVars>>

\* one half of flush: the slice handed to updateStatusBatch and the slice kept
flushSliceKeepingNothing(buf, batchSize) ==
    IF Len(buf) > batchSize
    THEN [toFlush |-> SubSeq(buf, 1, batchSize), rest |-> <<>>]
    ELSE [toFlush |-> buf, rest |-> <<>>]

flushSlice(buf, batchSize) ==
    IF Len(buf) > batchSize
    THEN [toFlush |-> SubSeq(buf, 1, batchSize),
          rest |-> SubSeq(buf, batchSize + 1, Len(buf))]
    ELSE [toFlush |-> buf, rest |-> <<>>]

\* updateStatusBatch: one UPDATE for a non-empty list of ids
updateStatusBatch(batches, messageIDs, status, flushNo) ==
    IF Len(messageIDs) = 0 THEN batches
    ELSE Append(batches, [status |-> status, ids |-> messageIDs, flush |-> flushNo])

\* DLRBuffer.flush; with both buffers empty it changes nothing
flush(batchSize) ==
    /\ Len(dlr.delivered) > 0 \/ Len(dlr.failed) > 0
    /\ LET d == flushSlice(dlr.delivered, batchSize)
           f == flushSlice(dlr.failed, batchSize)
           no == dlr.flushes + 1
       IN  dlr' = [dlr EXCEPT
                      !.delivered = d.rest,
                      !.failed = f.rest,
                      !.flushes = no,
                      !.batches = updateStatusBatch(
                                      updateStatusBatch(@, d.toFlush, "delivered", no),
                                      f.toFlush, "failed", no)]
    /\ UNCHANGED <<balance, reqs, cache>>
    /\ UNCHANGED <<gatewayVars, engineVars, wsVars>>

\* processDLRCallback queues; startDLRFlusher flushes on every tick
NextDLR ==
    \/ \E id \in MessageIDs, status \in DLRStatuses : queue(id, status)
    \/ flush(FlushBatchSize)

SpecDLR == InitSchema /\ [][NextDLR]_vars

-----------------------------------------------------------------------------
(* packages/llm-orchestrator: Cache.Get, Cache.Set, Cache.cleanup.  The
   sync.Map makes each Load, Store and Delete atomic, not a whole Get. *)

\* time passes
CacheTick ==
    /\ cache.now < MaxClock
    /\ cache' = [cache EXCEPT !.now = @ + 1]
    /\ UNCHANGED <<balance, reqs, dlr>>
    /\ UNCHANGED <<gatewayVars, engineVars, wsVars>>

\* Cache.Set: c.data.Store(key, &cacheEntry{response, time.Now().Add(c.ttl)})
CacheSet(k, c) ==
    /\ cache' = [cache EXCEPT
                    !.data[k] = [present |-> TRUE, content |-> c,
                                 expiry |-> cache.now + TTL],
                    !.last[k] = [set |-> TRUE, content |-> c, at |-> cache.now]]
    /\ UNCHANGED <<balance, reqs, dlr>>
    /\ UNCHANGED <<gatewayVars, engineVars, wsVars>>

\* Cache.Get, first step: c.data.Load(key)
CacheLoad(g, k) ==
    /\ cache.get[g].pc \in {"idle", "done"}
    /\ cache' = [cache EXCEPT
                    !.get[g] = [NoGet EXCEPT !.pc = "loaded", !.key = k,
                                             !.entry = cache.data[k],
                                             !.seen = cache.last[k]]]
    /\ UNCHANGED <<balance, reqs, dlr>>
    /\ UNCHANGED <<gatewayVars, engineVars, wsVars>>

\* Cache.Get, second step: the expiry test on the loaded entry, then the copy
\* of the response, or c.data.Delete(key) and nil
CacheReturn(g) ==
    /\ cache.get[g].pc = "loaded"
    /\ LET q == cache.get[g]
           hit == q.entry.present /\ cache.now < q.entry.expiry
           data == IF q.entry.present /\ ~hit
                   THEN [cache.data EXCEPT ![q.key] = NoEntry]
                   ELSE cache.data
       IN  cache' = [cache EXCEPT
                        !.data = data,
                        !.get[g] = [q EXCEPT
                            !.pc = "done",
                            !.result = IF hit
                                       THEN [isNil |-> FALSE, content |-> q.entry.content]
                                       ELSE NilResponse,
                            !.final = cache.last[q.key],
                            !.at = cache.now,
                            !.dropped = ~data[q.key].present]]
    /\ UNCHANGED <<balance, reqs, dlr>>
    /\ UNCHANGED <<gatewayVars, engineVars, wsVars>>

\* Cache.cleanup: an entry past its expiry is deleted
CacheCleanup(k) ==
    /\ cache.data[k].present
    /\ cache.now > cache.data[k].expiry
    /\ cache' = [cache EXCEPT !.data[k] = NoEntry]
    /\ UNCHANGED <<balance, reqs, dlr>>
    /\ UNCHANGED <<gatewayVars, engineVars, wsVars>>

NextCache ==
    \/ CacheTick
    \/ \E k \in CacheKeys, c \in Contents : CacheSet(k, c)
    \/ \E g \in Getters, k \in CacheKeys : CacheLoad(g, k)
    \/ \E g \in Getters : CacheReturn(g)
    \/ \E k \in CacheKeys : CacheCleanup(k)

SpecCache == InitSchema /\ [][NextCache]_vars

-----------------------------------------------------------------------------
(* apps/api-gateway/gateway.go: the query fields of NewGraphQLHandler *)

\* table names of the schemas handed to NewGraphQLHandler: at most this long
MaxFieldNameLen == 2

FieldTableNames ==
    SchemaWords \cup UNION {[1..n -> NameChars] : n \in 1..MaxFieldNameLen}

\* queryFields[name] = field: an assignment to a Go map
SetField(fields, name, field) ==
    [k \in DOMAIN fields \cup {name} |-> IF k = name THEN field ELSE fields[k]]

\* the two query fields of one table, assigned in the order of the code
TableQueryFields(fields, table) ==
    SetField(SetField(fields, toCamelCase(table), [table |-> table, resolve |-> "getOne"]),
             toPlural(toCamelCase(table)), [table |-> table, resolve |-> "list"])

\* the loop over dbSchema.Tables
RECURSIVE QueryFields(_, _)
QueryFields(fields, tables) ==
    IF tables = <<>> THEN fields
    ELSE QueryFields(TableQueryFields(fields, Head(tables)), Tail(tables))

\* graphql.Fields{}
NoFields == [k \in {} |-> [table |-> <<>>, resolve |-> ""]]

\* NewGraphQLHandler over a schema of two tables with distinct names
BuildQueryFields ==
    /\ out = NoCall
    /\ \E t1, t2 \in FieldTableNames :
        /\ t1 # t2
        /\ out' = [kind |-> "graphql", tables |-> <<t1, t2>>,
                   queryFields |-> QueryFields(NoFields, <<t1, t2>>)]
    /\ UNCHANGED <<permissions, store, cur, inserts, engineVars, wsVars, svcVars>>

NextGraphQL == BuildQueryFields

SpecGraphQL == InitSchema /\ [][NextGraphQL]_vars

-----------------------------------------------------------------------------
(* Properties *)

RowSet(rows) == {rows[i] : i \in 1..Len(rows)}

\* the operation a gateway request performs on its table
OpOf(req) == IF req.kind = "create" THEN PermissionInsert ELSE PermissionSelect

\* the value a configured token stands for
TokenValue(tok, claims) == IF tok = "X-Account-ID" THEN claims.AccountID ELSE tok

\* the value a column gets from a configured default: the caller's account or
\* the value of the SQL literal
DefaultValue(tok, claims) ==
    IF tok = "X-Account-ID" THEN claims.AccountID ELSE Unquote(tok)

\* the permission of one operation as the permission table of an ApplyRLS call
\* holds it: absent table or role, and a nil pointer, give Present = FALSE
EntryOf(perms, table, role, op) ==
    IF table \notin DOMAIN perms THEN NoPerm
    ELSE IF role \notin DOMAIN perms[table] THEN NoPerm
    ELSE IF op = PermissionSelect THEN perms[table][role].Select
    ELSE IF op = PermissionInsert THEN perms[table][role].Insert
    ELSE IF op = PermissionUpdate THEN perms[table][role].Update
    ELSE perms[table][role].Delete

\* C1 (P1, isolation): a list request authenticated as account A on a table
\* whose select permission filters a column by the caller's account returns
\* only rows whose value in that column is A.
C1_Isolation ==
    (cur.kind = "list" /\ ~cur.err) =>
        LET claims == ClaimsOf(cur)
            e == EntryOf(permissions, cur.table, claims.Role, PermissionSelect)
        IN  (e.Present /\ e.Allowed /\ ~e.Filter.isNil) =>
                \A col \in DOMAIN e.Filter.m :
                    e.Filter.m[col] = "X-Account-ID" =>
                        \A i \in 1..Len(cur.rows) :
                            Get(cur.rows[i], col) = claims.AccountID

\* C2: in every served request the steps Authenticate, Authorize and
\* ApplyRowFilter have run, in this order, before the first store call.
C2_PipelineOrder ==
    (cur.kind # "none" /\ cur.calls # <<>>) =>
        \E i, j, k, l \in 1..Len(cur.steps) :
            /\ i < j /\ j < k /\ k < l
            /\ cur.steps[i] = "Authenticate"
            /\ cur.steps[j] = "Authorize"
            /\ cur.steps[k] = "ApplyRowFilter"
            /\ cur.steps[l] = "Execute"
            /\ \A m \in 1..(l - 1) : cur.steps[m] # "Execute"

\* C3: a request whose authorization fails is answered 403 and sends no
\* statement to the store.
C3_RejectedNoExecution ==
    (cur.kind # "none"
        /\ RLSRefuses(permissions, cur.table, OpOf(cur), ClaimsOf(cur))) =>
            cur.status = 403 /\ cur.calls = <<>>

\* C4 (P2, fail-closed): ApplyRLS returns an error and no statement when the
\* permission table has no entry for (table, role), no permission for the
\* operation, or allowed = false; it returns a statement only when the
\* operation's permission exists with allowed = true.
C4_FailClosed ==
    out.kind = "rls" =>
        LET e == EntryOf(out.perms, out.table, out.claims.Role, out.op)
            denied == ~e.Present \/ ~e.Allowed
        IN  /\ denied => (out.res.err # "" /\ out.res.query = <<>>
                            /\ out.res.args = <<>> /\ out.res.argsNil)
            /\ ~denied => (out.res.err = "" /\ out.res.query # <<>>)

\* C4 witness: an insert refused because its permission has allowed = false
C4_Witness ==
    /\ out.kind = "rls"
    /\ out.op = PermissionInsert
    /\ EntryOf(out.perms, out.table, out.claims.Role, out.op).Present
    /\ ~EntryOf(out.perms, out.table, out.claims.Role, out.op).Allowed
    /\ out.res.err # ""

\* C5 (P4, insert defaults): the row persisted by an insert carries, for every
\* column of the insert permission's set map, the configured value, whatever
\* the payload gave.
C5_InsertDefaults ==
    (cur.kind = "create" /\ cur.stored) =>
        LET claims == ClaimsOf(cur)
            e == EntryOf(permissions, cur.table, claims.Role, PermissionInsert)
            row == store[cur.table][Len(store[cur.table])]
        IN  (e.Present /\ e.Allowed /\ ~e.Set.isNil) =>
                \A c \in DOMAIN e.Set.m : Get(row, c) = DefaultValue(e.Set.m[c], claims)

\* C6 (P5, protocol parity): a REST list of accounts returns the same set of
\* rows as the GraphQL accounts query with the same credentials and no
\* where/limit/offset, on the same store contents.
C6_ProtocolParity ==
    (cur.kind = "list" /\ cur.proto = "rest" /\ cur.table = "accounts") =>
        RowSet(cur.rows) =
            RowSet(resolveList(store, "accounts", cur.authParts, cur.apiKey, <<>>, <<>>).rows)

\* C7: Middleware never fails: for every header combination it produces claims
\* and calls the next handler.
C7_AuthenticateNeverFails ==
    out.kind = "middleware" => (~out.panicked /\ out.hasClaims /\ out.nextCalled)

\* C8: a request with an invalid bearer token gets the claims the same request
\* gets without its Authorization header.
C8_InvalidTokenAsNoToken ==
    (out.kind = "middleware"
        /\ Len(out.authParts) = 2 /\ IsBearerWord(out.authParts[1])
        /\ ValidateToken(out.authParts[2]).err) =>
            /\ out.hasClaims
            /\ out.claims = Middleware(<<>>, out.apiKey, "", "", store["accounts"]).claims

C10_NoClientFilter ==
    (cur.kind = "list" /\ cur.where # <<>>) =>
        /\ cur.calls = <<>>
        /\ (cur.err \/ cur.status >= 400)

\* C11: a bulk insert reports what was persisted: inserted is the number of
\* rows the store took and data holds exactly those rows, the refused rows
\* being skipped.
C11_BulkReportsPersisted ==
    cur.kind = "bulk" =>
        /\ Len(cur.calls) = Len(cur.items)
        /\ cur.inserted = Len(cur.persisted)
        /\ cur.rows = cur.persisted

\* C12: a list request on sms_history by an authenticated user returns only
\* rows of the caller's account, and no more rows than the limit of the
\* role's select permission.
C12_SmsHistoryOwnRowsCapped ==
    (cur.kind = "list" /\ cur.table = "sms_history" /\ ~cur.err
        /\ ClaimsOf(cur).Role = RoleUser) =>
        LET claims == ClaimsOf(cur)
            e == EntryOf(permissions, "sms_history", RoleUser, PermissionSelect)
        IN  /\ \A i \in 1..Len(cur.rows) : cur.rows[i].account_id = claims.AccountID
            /\ (e.Present /\ e.Limit > 0) => Len(cur.rows) <= e.Limit

\* the positions of LoadSchemaFromDB at which it waits for the store
LoaderRoundTrips == {"tables", "columns", "pk"}

\* C13: schema publication is atomic: e.schema is nil or a completely built
\* Schema; a published Schema is not built on any further; and a request sees
\* one snapshot from its start to its end.
C13_AtomicPublication ==
    /\ eschema # 0 =>
            /\ eschema \in loader.published
            /\ ~(loader.pc \in LoaderRoundTrips /\ loader.id = eschema)
    /\ loader.pc \in LoaderRoundTrips => loader.id \notin loader.published
    /\ \A i, j \in DOMAIN ready.obs : ready.obs[i] = ready.obs[j]
    /\ inflight.pc = "started" => inflight.snap = apis.schema

\* C14: the engine's exclusive lock is not held while LoadSchemaFromDB
\* performs its store round-trips.
C14_LockOnlyForSwap ==
    loader.pc \in LoaderRoundTrips => mu # "loader"

\* C15: after a schema reload that ran while the listener serves, every table
\* of the reloaded schema is available through GraphQL, REST, MCP and
\* WebSocket, and the requests in flight complete without error.
C15_ReloadReachesProtocols ==
    /\ (apis.serving /\ loader.pc = "idle" /\ loader.live /\ ~loader.err) =>
            \A t \in TableNames(schemas[loader.id]) :
                /\ t \in apis.graphql
                /\ t \in apis.rest
                /\ {"list_" \o t, "get_" \o t} \subseteq DOMAIN apis.mcp
                /\ t \in TableNames(schemas[apis.ws])
    /\ inflight.pc = "done" => ~inflight.err

C18_McpToolsPerTable ==
    apis.generated =>
        LET names == TableNames(schemas[apis.schema])
        IN  /\ \A t \in names :
                    /\ "list_" \o t \in DOMAIN apis.mcp
                    /\ "get_" \o t \in DOMAIN apis.mcp
                    /\ "id" \in apis.mcp["get_" \o t]
            /\ Cardinality(DOMAIN apis.mcp) >= 2 * Cardinality(names)

\* C18 witness: tools registered for a schema of two tables
C18_Witness ==
    /\ apis.generated
    /\ Cardinality(TableNames(schemas[apis.schema])) = 2
    /\ Cardinality(DOMAIN apis.mcp) = 4

\* C17: the registry holds exactly the connections whose handler is running:
\* every handler in its message loop is registered under its own key, also
\* after malformed and unknown messages; every entry belongs to a handler that
\* has not ended; a handler that has not started, has deregistered or has
\* ended has no entry.
C17_RegistryMatchesHandlers ==
    /\ \A c \in Conns :
            wsConn[c].pc = "loop" =>
                (wsConn[c].addr \in DOMAIN clients /\ clients[wsConn[c].addr] = c)
    /\ \A a \in DOMAIN clients :
            /\ wsConn[clients[a]].pc \in {"loop", "closing"}
            /\ wsConn[clients[a]].addr = a
    /\ \A c \in Conns :
            wsConn[c].pc \in {"none", "upgraded", "deleted", "closed"} =>
                ~(\E a \in DOMAIN clients : clients[a] = c)

\* C17 witness: a connection at the address of an ended one is registered
\* and has read a malformed message, while another handler has deregistered
C17_Witness ==
    \E c, d, e \in Conns :
        /\ wsConn[c].pc = "closed" /\ wsConn[c].addr # ""
        /\ wsConn[d].pc = "loop" /\ wsConn[d].addr = wsConn[c].addr
        /\ wsConn[d].last = "not-json"
        /\ wsConn[e].pc = "deleted"
        /\ DOMAIN clients = {wsConn[d].addr}

\* C19: the statement of an MCP list tool carries a row limit that is not
\* negative and not above a fixed bound, whatever limit the client sends, and
\* 100 when the client sends none.  The bound is taken as the largest row
\* limit of the permission configuration.
C19_McpLimitBounded ==
    (cur.kind = "list" /\ cur.proto = "mcp") =>
        LET stmt == cur.calls[1].stmt
            bound == EntryOf(DefaultPermissions, "sms_history", RoleUser,
                             PermissionSelect).Limit
        IN  /\ Len(stmt) = 6 /\ stmt[5] = "LIMIT" /\ IsNumLit(stmt[6])
            /\ NumOf(stmt[6]) >= 0
            /\ NumOf(stmt[6]) <= bound
            /\ cur.limit = <<>> => NumOf(stmt[6]) = MCPDefaultLimit

\* C20 (P3, naming determinism): toCamelCase, toPascalCase and toPlural give
\* the documented results, and toPlural replaces a trailing y by ies, appends
\* es after a trailing s, and appends s otherwise.
C20_Naming ==
    out.kind = "naming" =>
        LET s == out.input
            n == Len(s)
        IN  /\ s = <<"s", "m", "s", "_", "h", "i", "s", "t", "o", "r", "y">> =>
                    /\ out.camel = <<"s", "m", "s", "H", "i", "s", "t", "o", "r", "y">>
                    /\ out.pascal = <<"S", "m", "s", "H", "i", "s", "t", "o", "r", "y">>
            /\ s = <<"i", "d">> => out.camel = <<"i", "d">>
            /\ s = <<"a", "c", "c", "o", "u", "n", "t">> => out.plural = <<"a", "c", "c", "o", "u", "n", "t", "s">>
            /\ s = <<"h", "i", "s", "t", "o", "r", "y">> => out.plural = <<"h", "i", "s", "t", "o", "r", "i", "e", "s">>
            /\ s = <<"s", "t", "a", "t", "u", "s">> => out.plural = <<"s", "t", "a", "t", "u", "s", "e", "s">>
            /\ (n > 0 /\ s[n] = "y") =>
                    /\ Len(out.plural) = n + 2
                    /\ SubSeq(out.plural, 1, n - 1) = SubSeq(s, 1, n - 1)
                    /\ SubSeq(out.plural, n, n + 2) = <<"i", "e", "s">>
            /\ (n > 0 /\ s[n] = "s") =>
                    /\ Len(out.plural) = n + 2
                    /\ SubSeq(out.plural, 1, n) = s
                    /\ SubSeq(out.plural, n + 1, n + 2) = <<"e", "s">>
            /\ (n = 0 \/ s[n] \notin {"y", "s"}) =>
                    /\ Len(out.plural) = n + 1
                    /\ SubSeq(out.plural, 1, n) = s
                    /\ out.plural[n + 1] = "s"

\* C20 witness: history has been pluralised
C20_Witness ==
    /\ out.kind = "naming"
    /\ out.input = <<"h", "i", "s", "t", "o", "r", "y">>
    /\ out.plural = <<"h", "i", "s", "t", "o", "r", "i", "e", "s">>

\* C21: every TableSchema of a published Schema has a non-empty primary key,
\* the column of the index metadata or the literal id; in the Schema a load
\* has just published it is the column of the index metadata for the tables
\* whose lookup returned one, and id for the tables whose lookup found nothing
\* or failed.
C21_PrimaryKeyFallback ==
    /\ \A id \in loader.published :
          \A i \in 1..Len(schemas[id].Tables) :
              LET t == schemas[id].Tables[i]
              IN  t.PrimaryKey # "" /\ t.PrimaryKey \in {CatalogPK(t.Name), "id"}
    /\ loader.pc = "return" =>
          \A i \in 1..Len(schemas[loader.id].Tables) :
              LET t == schemas[loader.id].Tables[i]
              IN  /\ t.Name \in loader.found => t.PrimaryKey = CatalogPK(t.Name)
                  /\ t.Name \notin loader.found => t.PrimaryKey = "id"

\* C21 witness: a load has published a schema with payments keyed by id after
\* a failed lookup, an earlier one a schema with payments keyed by payment_id
C21_Witness ==
    /\ loader.pc = "return"
    /\ "payments" \notin loader.found
    /\ \E i \in 1..Len(schemas[loader.id].Tables) :
          /\ schemas[loader.id].Tables[i].Name = "payments"
          /\ schemas[loader.id].Tables[i].PrimaryKey = "id"
    /\ \E id \in loader.published :
          \E i \in 1..Len(schemas[id].Tables) :
              /\ schemas[id].Tables[i].Name = "payments"
              /\ schemas[id].Tables[i].PrimaryKey = "payment_id"

\* C22: when Middleware calls the next handler, the X-Account-ID and X-Role
\* headers it passes on are those of the resolved claims whatever the client
\* sent, so two consecutive requests with the same credentials and different
\* client headers reach the handler with the same X-Account-ID and X-Role.
C22_TrustedHeaders ==
    [][(out'.kind = "middleware" /\ out'.nextCalled) =>
        /\ out'.xAccountID = out'.claims.AccountID
        /\ out'.xRole = out'.claims.Role
        /\ (/\ out.kind = "middleware"
            /\ out.nextCalled
            /\ out.authParts = out'.authParts
            /\ out.apiKey = out'.apiKey)
           => (out.xAccountID = out'.xAccountID /\ out.xRole = out'.xRole)]_vars

\* C22 witness: an authenticated request whose client sent another account's
\* id and an admin role reached the next handler
C22_Witness ==
    /\ out.kind = "middleware"
    /\ out.nextCalled
    /\ out.claims.AccountID = "A"
    /\ out.clientAccountID = "B"
    /\ out.clientRole = "admin"
    /\ out.claims.Role # "admin"

\* C23: a bulk request with no recipient, no message or no type, with more
\* than 1000 recipients, or with more than 5 recipients outside live mode, is
\* answered 400 and makes no store call, no provider send, no history row
\* and no charge.
C23_BulkValidatesFirst ==
    \A r \in ReqIds :
        LET q == reqs[r] IN
        (/\ q.kind = "bulk"
         /\ \/ q.n = 0 \/ q.message = "" \/ q.type = ""
            \/ q.n > 1000
            \/ (~q.isLive /\ q.n > 5))
        => /\ q.pc = "done"
           /\ q.status = 400
           /\ q.calls = 0 /\ q.sent = 0 /\ q.rows = 0 /\ q.charged = 0

\* C23 witness: six recipients outside live mode were refused after an
\* earlier live request had been sent and charged
C23_Witness ==
    /\ reqs[1].kind = "bulk"
    /\ reqs[1].status = 400
    /\ ~reqs[1].isLive
    /\ reqs[1].n = 6
    /\ reqs[1].message = "hi"
    /\ reqs[1].type = "promotional"
    /\ balance["acc-0001"] < 60

\* C29: under concurrent send and bulk-send requests the balance of a live
\* account never goes below zero, and a request answered 402 sends nothing
\* and charges nothing.
C29_BalanceNeverNegative ==
    /\ \A a \in DOMAIN balance : balance[a] >= 0
    /\ \A r \in ReqIds :
          reqs[r].status = 402 => (reqs[r].sent = 0 /\ reqs[r].charged = 0)

\* the ids queued with a status, in the order of the calls
RECURSIVE QueuedWith(_, _)
QueuedWith(calls, status) ==
    IF calls = <<>> THEN <<>>
    ELSE (IF Head(calls).status = status THEN <<Head(calls).id>> ELSE <<>>)
         \o QueuedWith(Tail(calls), status)

\* the ids handed to the store with a status, in the order of the batches
RECURSIVE FlushedWith(_, _)
FlushedWith(batches, status) ==
    IF batches = <<>> THEN <<>>
    ELSE (IF Head(batches).status = status THEN Head(batches).ids ELSE <<>>)
         \o FlushedWith(Tail(batches), status)

\* C26: every id queued as delivered or failed is in exactly one batch of that
\* status or still in its buffer, in the order it was queued; a flush hands
\* out at most batchSize ids per status in one batch; ids queued with another
\* status appear nowhere.
C26_DLRConservation ==
    /\ FlushedWith(dlr.batches, "delivered") \o dlr.delivered
          = QueuedWith(dlr.queued, "delivered")
    /\ FlushedWith(dlr.batches, "failed") \o dlr.failed
          = QueuedWith(dlr.queued, "failed")
    /\ \A i \in 1..Len(dlr.batches) :
          /\ dlr.batches[i].status \in {"delivered", "failed"}
          /\ Len(dlr.batches[i].ids) \in 1..FlushBatchSize
          /\ \A j \in 1..Len(dlr.batches) :
                (i # j /\ dlr.batches[i].flush = dlr.batches[j].flush)
                => dlr.batches[i].status # dlr.batches[j].status

\* C26 witness: a flush handed out a full batch and kept the remainder, with
\* an id of another status queued as well
C26_Witness ==
    /\ \E i \in 1..Len(dlr.batches) :
          /\ dlr.batches[i].status = "delivered"
          /\ Len(dlr.batches[i].ids) = FlushBatchSize
    /\ dlr.delivered # <<>>
    /\ \E i \in 1..Len(dlr.queued) : dlr.queued[i].status = "pending"

\* C24: a Get of a key whose last Set is less than ttl old returns the content
\* of that Set; a Get of a key whose last Set is ttl old or older returns nil
\* and leaves no entry; a Get of a key never Set returns nil.  (Gets during
\* which the key is Set again are left out.)
C24_CacheTTL ==
    \A g \in Getters :
        LET q == cache.get[g] IN
        q.pc = "done" =>
            /\ (q.seen.set /\ q.final = q.seen /\ q.at < q.seen.at + TTL)
               => (~q.result.isNil /\ q.result.content = q.seen.content)
            /\ (q.seen.set /\ q.final = q.seen /\ q.at >= q.seen.at + TTL)
               => (q.result.isNil /\ q.dropped)
            /\ ~q.final.set => q.result.isNil

\* positions of the keywords that end a WHERE clause
TailKeywords == {"LIMIT", "ORDER", "RETURNING"}

\* the largest parameter number used in a statement, 0 when it uses none
MaxParamOf(q) ==
    LET used == {i \in 1..MaxParams : \E j \in 1..Len(q) : q[j] = Param(i)}
    IN  IF used = {} THEN 0 ELSE CHOOSE i \in used : \A k \in used : k <= i

\* C25: in the statement ApplyRLS returns for a non-empty row filter, every
\* filter column has a predicate col = $n that stands after the single WHERE
\* of the statement and before any LIMIT, ORDER BY or RETURNING.
C25_PredicatesInsideWhere ==
    (out.kind = "rls" /\ out.res.err = "" /\ out.op # PermissionInsert) =>
        LET F == EntryOf(out.perms, out.table, out.claims.Role, out.op).Filter
            q == out.res.query
            wheres == {j \in 1..Len(q) : q[j] = "WHERE"}
            tails == {j \in 1..Len(q) : q[j] \in TailKeywords}
        IN  (~F.isNil /\ DOMAIN F.m # {}) =>
              /\ Cardinality(wheres) = 1
              /\ \A c \in DOMAIN F.m :
                    \E j \in 1..(Len(q) - 2) :
                        /\ q[j] = c /\ q[j + 1] = "=" /\ IsParam(q[j + 2])
                        /\ out.res.args[ParamIndex(q[j + 2])] = TokenValue(F.m[c], out.claims)
                        /\ \A w \in wheres : w < j
                        /\ \A t \in tails : j < t

\* C27: the parameters of the predicates ApplyRLS adds to a statement that
\* uses $1..$k are numbered above k.
C27_FreshParameters ==
    (out.kind = "rls" /\ out.res.err = "") =>
        LET q == out.res.query
            k == MaxParamOf(out.query)
        IN  \A j \in (Len(out.query) + 1)..Len(q) :
                IsParam(q[j]) => ParamIndex(q[j]) > k

\* C28: a call of LoadSchemaFromDB that returns an error leaves e.schema as it
\* was when the call began; a call that returns nil has published a schema
\* with one TableSchema for every table the store listed.
C28_LoadAllOrNothing ==
    /\ loader.err => eschema = loader.prev
    /\ loader.pc = "return" =>
          /\ eschema = loader.id
          /\ TableNames(schemas[eschema]) = {loader.names[i] : i \in 1..Len(loader.names)}
          /\ Len(schemas[eschema].Tables) = Len(loader.names)

\* C30: for tables with pairwise distinct names the query fields are pairwise
\* distinct: every table has its get-one field under toCamelCase(t) and its
\* list field under toPlural(toCamelCase(t)), two fields per table in all.
C30_QueryFieldsDistinct ==
    out.kind = "graphql" =>
        /\ Cardinality(DOMAIN out.queryFields) = 2 * Len(out.tables)
        /\ \A i \in 1..Len(out.tables) :
              LET t == out.tables[i] IN
              /\ toCamelCase(t) \in DOMAIN out.queryFields
              /\ out.queryFields[toCamelCase(t)] = [table |-> t, resolve |-> "getOne"]
              /\ toPlural(toCamelCase(t)) \in DOMAIN out.queryFields
              /\ out.queryFields[toPlural(toCamelCase(t))] = [table |-> t, resolve |-> "list"]

====
